---- MODULE Spec2Model ----
(***************************************************************************)
(* A model of supabase-query-alert: the volume-anomaly detector            *)
(* (analyzers/volume_anomaly.py), the analyzer registry                    *)
(* (analyzers/registry.py), the manual input source (input/manual.py) and  *)
(* the query pipeline (core/pipeline.py).                                  *)
(*                                                                         *)
(* Representation.  An Optional value is a sequence of length 0 (None) or  *)
(* 1 (the value).  A datetime is an integer number of seconds, the value   *)
(* of datetime.timestamp().  An SQL text is a sequence of tokens.          *)
(***************************************************************************)
EXTENDS Integers, Sequences, FiniteSets, TLC

VARIABLES
    window_seconds,  \* VolumeAnomalyAnalyzer._window_seconds
    queries,         \* VolumeAnomalyAnalyzer._queries: user key -> list of datetimes
    now,             \* the wall clock read by datetime.now()
    ncalls,          \* history: number of VolumeAnomalyAnalyzer.analyze calls made
    last,            \* history: the last analyze call (key, event time, count, result)
    t_min,           \* history: smallest event time of any analyze call so far
    t_max,           \* history: largest event time of any analyze call so far
    seen_keys,       \* history: the user keys of the analyze calls so far
    input_queries,   \* ManualInput._queries
    input_index,     \* ManualInput._index (0-based: the number of queries yielded)
    analyzers,       \* AnalyzerRegistry._analyzers: the detectors, by name
    outputs,         \* QueryPipeline._outputs: the sinks, by name
    delivered,       \* per sink (position in outputs): the alerts its send accepted
    pc,              \* where QueryPipeline.run stands
    cur_query,       \* run: the loop variable query (Optional)
    cur_findings,    \* analyze_all: the list findings
    ai,              \* analyze_all: position of the for loop over _analyzers
    cur_alert,       \* run: the variable alert (Optional)
    oi,              \* run: position of the for loop over _outputs
    events,          \* history: the calls the pipeline made, in order
    shapes,          \* history: the shapes of the queries without a user analysed
    alert,           \* an Alert that was constructed (Optional)
    alert_severity,  \* the value read from alert.severity (Optional)
    det_sql,         \* the SQL text of the query given to the pattern detectors
    inj_result,      \* what SQLInjectionAnalyzer.analyze returned (empty: not called)
    exf_result,      \* what DataExfiltrationAnalyzer.analyze returned (empty: not called)
    parse_input,     \* the argument of a parser call: kind (message, row or line) and value
    parse_outcome,   \* the outcome of the parser call (empty: not called)
    adapter,         \* the input adapter in use: logfile (LogFileInput) or supabase (SupabaseLogInput)
    records,         \* LogFileInput._lines, or the log_rows given to SupabaseLogInput
    rec_index,       \* LogFileInput._index, SupabaseLogInput._index
    sb_queries,      \* SupabaseLogInput._queries
    adapter_pc,      \* new, ready, exhausted (StopAsyncIteration) or raised (another exception)
    yielded,         \* history: the queries that __anext__ returned, in order
    http_client,     \* SupabaseManagementClient._client is set (the context manager was entered)
    http_pc,         \* where _request stands: start, loop, got, returned or raised
    http_retries,    \* _request: the local retries
    http_response,   \* _request: the local response (Optional)
    http_sent,       \* history: the number of requests sent
    http_statuses,   \* history: the status codes of the responses received, in order
    http_sleeps,     \* history: the delays given to asyncio.sleep, in tenths of a second
    http_raised,     \* the exception that ended _request (Optional)
    lq_now,          \* query_logs: datetime.now(UTC), in minutes
    lq_start,        \* query_logs: the argument start_time (Optional)
    lq_end,          \* query_logs: the argument end_time (Optional)
    lq_limit,        \* query_logs: the argument limit
    lq_pc,           \* where query_logs stands: start, request, returned or raised
    lq_params,       \* the LogQueryParams built by query_logs (Optional)
    lq_calls,        \* history: the number of HTTP calls made
    lq_raised,       \* the exception that ended query_logs (Optional)
    lq_status,       \* history: the status code of the answer to the HTTP call (Optional)
    call_log,        \* history: the user key and the event time of every analyze call, in order
    ref_queries,     \* _queries of a second detector, which is given the events of one user only
    ref_result,      \* what the second detector returned for the last event (Optional)
    own_events,      \* history: the number of events of that user
    other_events,    \* history: the number of events of other users
    first_findings,  \* history: per query, the findings of the first analyze_all of each registry
    twice_last,      \* the query of the last analyze_all and the findings each registry returned
    src_kind,        \* the input source in use: manual, logfile, supabase (with a client) or supabase_rows (from_log_rows)
    src_items,       \* ManualInput._queries, LogFileInput._lines, or the rows given to from_log_rows
    src_queries,     \* SupabaseLogInput._queries
    src_index,       \* _index of the source
    src_fetched,     \* SupabaseLogInput._fetched
    src_pc,          \* idle, or refreshing: refresh() waits for _fetch_logs
    src_last,        \* the last call on the source and its outcome
    src_fetches,     \* history: the number of query_logs calls
    src_out,         \* history: the queries yielded since the construction, the last reset or refresh
    src_prev,        \* history: the queries of the pass that a reset ended, if it was complete (Optional)
    src_stopped,     \* history: the end of input was signalled since the construction, the last reset or refresh
    src_ops,         \* history: the number of calls on the source
    loop_running,    \* the pipeline task that the event loop is running, 0 when it is choosing one
    task_pc,         \* where each task is: outside analyze, or after line 42 (pruned) or line 43 (appended) of it
    task_left,       \* the queries that each task has still to analyze
    observed         \* history: the counts that the calls of analyze have read at line 44, in the order of the reads

volVars == <<window_seconds, queries, ncalls, last, t_min, t_max, seen_keys>>
pipeVars == <<input_queries, input_index, analyzers, outputs, delivered, pc,
              cur_query, cur_findings, ai, cur_alert, oi, events>>
anonVars == <<shapes>>
alertVars == <<alert, alert_severity>>
detVars == <<det_sql, inj_result, exf_result>>
parseVars == <<parse_input, parse_outcome>>
adapterVars == <<adapter, records, rec_index, sb_queries, adapter_pc, yielded>>
httpVars == <<http_client, http_pc, http_retries, http_response, http_sent,
              http_statuses, http_sleeps, http_raised>>
logqVars == <<lq_now, lq_start, lq_end, lq_limit, lq_pc, lq_params, lq_calls, lq_raised,
              lq_status>>
histVars == <<call_log>>
pairVars == <<ref_queries, ref_result, own_events, other_events>>
twiceVars == <<first_findings, twice_last>>
srcVars == <<src_kind, src_items, src_queries, src_index, src_fetched, src_pc, src_last,
             src_fetches, src_out, src_prev, src_stopped, src_ops>>
loopVars == <<loop_running, task_pc, task_left, observed>>
\* the state of the components that are driven on their own
extVars == <<anonVars, alertVars, detVars, parseVars, adapterVars, httpVars, logqVars, histVars, pairVars, twiceVars, srcVars, loopVars>>
vars == <<volVars, now, pipeVars, extVars>>

----------------------------------------------------------------------------
(* Bounds of the model *)

MaxTime == 3        \* the wall clock and the event times range over 0..MaxTime
MaxWindow == 2      \* window_seconds ranges over 1..MaxWindow
MaxCalls == 3       \* analyze calls in the general detector workload
MaxBurst == 102     \* analyze calls in the single-key burst workload
MaxClock == 1       \* the wall clock of the burst workload ranges over 0..MaxClock
MaxQueries == 2     \* queries held by the input source of a pipeline
MaxAnalyzers == 2   \* detectors registered in a registry
MaxOutputs == 2     \* sinks of a pipeline
MaxAnon == 21       \* analyze calls in the workload of queries without a user
MaxFindings == 3     \* findings held by an Alert that is constructed directly
MaxFragments == 3    \* fragments that make up an SQL text given to the pattern detectors
MaxLead == 2         \* whitespace characters before the AUDIT: token of a message
MaxRecords == 3      \* lines or rows held by an input adapter
MaxOrdered == 4     \* analyze calls in the workload with non-decreasing event times
MaxOwn == 22        \* events of the user whose findings are compared
MaxOthers == 2      \* events of other users mixed into the sequence
MaxTwice == 22      \* analyze_all calls on the registries that are called directly
MaxItems == 2       \* queries, lines or rows held by an input source that is iterated on its own
MaxOps == 7         \* calls (__anext__, reset, refresh) on such a source
MaxTasks == 2       \* pipelines that share one detector on one event loop
MaxPerTask == 3     \* queries of each of these pipelines

----------------------------------------------------------------------------
(* Domain types: domain/models.py *)

None == <<>>
Some(x) == <<x>>

LOW == 1
MEDIUM == 2
HIGH == 3
Severity == {LOW, MEDIUM, HIGH}

QueryMetadata(timestamp, user_id) == [timestamp |-> timestamp, user_id |-> user_id]
Query(sql, metadata) == [sql |-> sql, metadata |-> metadata]
Finding(analyzer_name, severity, message, details) ==
    [analyzer_name |-> analyzer_name, severity |-> severity,
     message |-> message, details |-> details]

----------------------------------------------------------------------------
(* VolumeAnomalyAnalyzer: analyzers/volume_anomaly.py *)

ThresholdHigh == 100
ThresholdMedium == 50
ThresholdLow == 20

ANONYMOUS == "__anonymous__"

\* faulty variant: timestamps later than the current event time are pruned too
cleanup_expired_around(q, current_time, window) ==
    LET pruned == [u \in DOMAIN q |->
                      SelectSeq(q[u], LAMBDA ts : ts > current_time - window
                                                  /\ ts <= current_time)]
    IN  [u \in {k \in DOMAIN q : pruned[k] # <<>>} |-> pruned[u]]

\* faulty variant: a timestamp equal to current_time - window is kept
cleanup_expired_inclusive(q, current_time, window) ==
    LET pruned == [u \in DOMAIN q |->
                      SelectSeq(q[u], LAMBDA ts : ts >= current_time - window)]
    IN  [u \in {k \in DOMAIN q : pruned[k] # <<>>} |-> pruned[u]]

\* faulty variant: nothing is ever pruned
cleanup_expired_keep_all(q, current_time, window) == q

\* _cleanup_expired: every key's list keeps the timestamps strictly later than
\* current_time - window; a key whose list becomes empty is deleted.
cleanup_expired(q, current_time, window) ==
    LET expired_threshold == current_time - window
        pruned == [u \in DOMAIN q |->
                      SelectSeq(q[u], LAMBDA ts : ts > expired_threshold)]
    IN  [u \in {k \in DOMAIN q : pruned[k] # <<>>} |-> pruned[u]]

\* faulty variant: a query without metadata gets a bucket of its own
ResolveUserSplit(query) ==
    IF query.metadata = None THEN "__no_metadata__"
    ELSE IF query.metadata[1].user_id # None THEN query.metadata[1].user_id[1]
    ELSE ANONYMOUS

\* analyze, lines 32-35: the user key of a query
ResolveUser(query) ==
    IF query.metadata # None /\ query.metadata[1].user_id # None
    THEN query.metadata[1].user_id[1]
    ELSE ANONYMOUS

\* analyze, lines 37-40: the event time of a query; wall is datetime.now()
ResolveTime(query, wall) ==
    IF query.metadata # None /\ query.metadata[1].timestamp # None
    THEN query.metadata[1].timestamp[1]
    ELSE wall

\* faulty variant: the new event time is put in front of the list
AppendForFront(q, user_id, timestamp) ==
    [u \in DOMAIN q \cup {user_id} |->
        IF u = user_id
        THEN <<timestamp>> \o (IF u \in DOMAIN q THEN q[u] ELSE <<>>)
        ELSE q[u]]

\* self._queries[user_id].append(timestamp) on a defaultdict(list)
AppendFor(q, user_id, timestamp) ==
    [u \in DOMAIN q \cup {user_id} |->
        IF u = user_id
        THEN (IF u \in DOMAIN q THEN q[u] ELSE <<>>) \o <<timestamp>>
        ELSE q[u]]

\* faulty variant: the thresholds taken as inclusive
SeverityForInclusive(count) ==
    IF count >= ThresholdHigh THEN Some(HIGH)
    ELSE IF count >= ThresholdMedium THEN Some(MEDIUM)
    ELSE IF count >= ThresholdLow THEN Some(LOW)
    ELSE None

\* analyze, lines 46-52: thresholds tried in descending order, each exclusive
SeverityFor(count) ==
    IF count > ThresholdHigh THEN Some(HIGH)
    ELSE IF count > ThresholdMedium THEN Some(MEDIUM)
    ELSE IF count > ThresholdLow THEN Some(LOW)
    ELSE None

\* analyze, lines 54-66: the finding, or None
VolumeFinding(severity, count, window, user_id) ==
    IF severity = None THEN None
    ELSE Some(Finding("volume_anomaly", severity[1],
                      <<"High query volume detected", count, window>>,
                      [query_count |-> count, window_seconds |-> window,
                       user_id |-> user_id]))

\* faulty variant: the count is taken before the new event time is appended
VolumeAnalyzeCountBeforeAppend(q, window, query, wall) ==
    LET user_id == ResolveUser(query)
        timestamp == ResolveTime(query, wall)
        q1 == cleanup_expired(q, timestamp, window)
        q2 == AppendFor(q1, user_id, timestamp)
        count == IF user_id \in DOMAIN q1 THEN Len(q1[user_id]) ELSE 0
    IN  [queries |-> q2, user_id |-> user_id, timestamp |-> timestamp,
         count |-> count,
         result |-> VolumeFinding(SeverityFor(count), count, window, user_id)]

\* analyze as a function of the detector's state, the query and the clock:
\* the new map, the count and the result
VolumeAnalyze(q, window, query, wall) ==
    LET user_id == ResolveUser(query)
        timestamp == ResolveTime(query, wall)
        q2 == AppendFor(cleanup_expired(q, timestamp, window), user_id, timestamp)
        count == Len(q2[user_id])
    IN  [queries |-> q2, user_id |-> user_id, timestamp |-> timestamp,
         count |-> count,
         result |-> VolumeFinding(SeverityFor(count), count, window, user_id)]

----------------------------------------------------------------------------
(* The pattern detectors: analyzers/sql_injection.py and                   *)
(* analyzers/data_exfiltration.py.  An SQL text is a sequence of tokens: a *)
(* word or punctuation token W(s), or a numeral N(ds) with its decimal     *)
(* digits.  Whitespace separates tokens.  A regular expression of the rule *)
(* tables is the sequence of the token sets it accepts, one per token.     *)

W(s) == [w |-> s, d |-> <<>>]
N(ds) == [w |-> "", d |-> ds]

\* re.IGNORECASE: the upper-case form of a word of the vocabulary
Upper(s) ==
    CASE s = "select" -> "SELECT"
      [] s = "from" -> "FROM"
      [] s = "users" -> "USERS"
      [] s = "password" -> "PASSWORD"
      [] s = "limit" -> "LIMIT"
      [] s = "offset" -> "OFFSET"
      [] s = "or" -> "OR"
      [] s = "drop" -> "DROP"
      [] OTHER -> s

Fold(tok) == [w |-> Upper(tok.w), d |-> tok.d]

\* pattern.search(sql): the pattern matches at some position
Search(pat, sql) ==
    \E i \in 1..(Len(sql) - Len(pat) + 1) :
        \A j \in 1..Len(pat) : Fold(sql[i + j - 1]) \in pat[j]

\* a rule of a table; a description is a sequence of the parts of its text
Rule(pat, desc) == [pat |-> pat, desc |-> <<desc>>]
Word(s) == {W(s)}
Stacked(s) == <<Word(";"), Word(s)>>
Call(s) == <<Word(s), Word("(")>>
Letters == {"'a'", "'x'"}

\* SQLInjectionAnalyzer._patterns
InjectionPatterns(severity) ==
    IF severity = HIGH THEN <<
        Rule(Stacked("DROP"), "stacked DROP"),
        Rule(Stacked("DELETE"), "stacked DELETE"),
        Rule(Stacked("UPDATE"), "stacked UPDATE"),
        Rule(Stacked("INSERT"), "stacked INSERT"),
        Rule(Stacked("ALTER"), "stacked ALTER"),
        Rule(Stacked("CREATE"), "stacked CREATE"),
        Rule(Stacked("TRUNCATE"), "stacked TRUNCATE"),
        Rule(Stacked("WAITFOR"), "stacked WAITFOR"),
        Rule(<<Word("UNION"), Word("ALL"), Word("SELECT")>>, "UNION ALL SELECT"),
        Rule(<<Word("UNION"), Word("SELECT")>>, "UNION SELECT") >>
    ELSE IF severity = MEDIUM THEN <<
        Rule(<<Word("OR"), {N(<<1>>)}, Word("="), {N(<<1>>)}>>, "tautology OR 1=1"),
        Rule(<<Word("OR"), Word("'1'"), Word("="), Word("'1'")>>, "tautology OR '1'='1'"),
        Rule(<<Word("OR"), Word("\"1\""), Word("="), Word("\"1\"")>>,
             "tautology OR \"1\"=\"1\""),
        Rule(<<Word("OR"), {W(c) : c \in Letters}, Word("="), {W(c) : c \in Letters}>>,
             "tautology OR 'x'='x'"),
        Rule(<<Word("--")>>, "comment --"),
        Rule(<<Word("/*")>>, "comment /*"),
        Rule(<<Word("#")>>, "comment #") >>
    ELSE <<
        Rule(Call("SLEEP"), "time-based SLEEP"),
        Rule(<<Word("WAITFOR")>>, "time-based WAITFOR"),
        Rule(Call("BENCHMARK"), "time-based BENCHMARK"),
        Rule(Call("EXTRACTVALUE"), "error-based EXTRACTVALUE"),
        Rule(Call("UPDATEXML"), "error-based UPDATEXML") >>

\* the (severity, description) pairs of the rules of one tier that match
TierMatches(rules, severity, sql) ==
    LET hit == SelectSeq(rules, LAMBDA r : Search(r.pat, sql))
    IN  [i \in 1..Len(hit) |-> <<severity, hit[i].desc>>]

\* faulty variant: the severity of the last match
SeverityOfLast(matches) == matches[Len(matches)][1]

RECURSIVE MaxSeverity(_)
\* max(m[0] for m in matches), matches not empty
MaxSeverity(matches) ==
    IF Len(matches) = 1 THEN matches[1][1]
    ELSE LET rest == MaxSeverity(Tail(matches))
         IN  IF matches[1][1] > rest THEN matches[1][1] ELSE rest

\* faulty variant: the descriptions are listed from the last match to the first
PatternFindingReversed(name, label, matches) ==
    IF matches = <<>> THEN None
    ELSE LET n == Len(matches)
             pattern_names == [i \in 1..n |-> matches[n + 1 - i][2]]
         IN  Some(Finding(name, MaxSeverity(matches),
                          <<label, pattern_names[1]>>,
                          [patterns |-> pattern_names]))

\* the Finding both pattern detectors build from their matches, or None
PatternFinding(name, label, matches) ==
    IF matches = <<>> THEN None
    ELSE LET pattern_names == [i \in 1..Len(matches) |-> matches[i][2]]
         IN  Some(Finding(name, MaxSeverity(matches),
                          <<label, pattern_names[1]>>,
                          [patterns |-> pattern_names]))

\* SQLInjectionAnalyzer.analyze
InjectionAnalyze(query) ==
    PatternFinding("sql_injection", "SQL injection pattern detected",
        TierMatches(InjectionPatterns(HIGH), HIGH, query.sql)
        \o TierMatches(InjectionPatterns(MEDIUM), MEDIUM, query.sql)
        \o TierMatches(InjectionPatterns(LOW), LOW, query.sql))

\* SENSITIVE_TABLES
SensitiveTables == {W("USERS"), W("CREDENTIALS"), W("PAYMENTS"), W("SECRETS"), W("TOKENS")}

\* \w+ : any word of the vocabulary
AnyWord == {W(s) : s \in {"USERS", "PRODUCTS", "ACCOUNTS", "ID", "NAME", "PASSWORD"}}

\* DataExfiltrationAnalyzer._patterns
ExfiltrationPatterns(severity) ==
    IF severity = HIGH THEN <<
        Rule(<<Word("SELECT"), Word("*"), Word("FROM"), SensitiveTables>>,
             "SELECT * from sensitive table"),
        Rule(<<Word("INTO"), Word("OUTFILE")>>, "INTO OUTFILE export"),
        Rule(<<Word("INTO"), Word("DUMPFILE")>>, "INTO DUMPFILE export"),
        Rule(<<Word("COPY"), AnyWord, Word("TO")>>, "COPY TO export") >>
    ELSE IF severity = MEDIUM THEN <<
        Rule(<<Word("PASSWORD")>>, "sensitive column: password"),
        Rule(<<Word("SECRET")>>, "sensitive column: secret"),
        Rule(<<Word("TOKEN")>>, "sensitive column: token"),
        Rule(<<Word("API_KEY")>>, "sensitive column: api_key"),
        Rule(<<Word("CREDIT_CARD")>>, "sensitive column: credit_card"),
        Rule(<<Word("SSN")>>, "sensitive column: ssn"),
        Rule(<<Word("PRIVATE_KEY")>>, "sensitive column: private_key") >>
    ELSE << >>

RECURSIVE IntOf(_)
\* int(text) of a string of decimal digits
IntOf(ds) == IF ds = <<>> THEN 0 ELSE 10 * IntOf(SubSeq(ds, 1, Len(ds) - 1)) + ds[Len(ds)]

\* re.search of keyword\s+(\d+): the digits of the first keyword that a
\* numeral follows, or None
FirstNumberAfter(keyword, sql) ==
    LET at == {i \in 1..(Len(sql) - 1) :
                  Fold(sql[i]) = W(keyword) /\ sql[i + 1].d # <<>>}
    IN  IF at = {} THEN None
        ELSE Some(sql[(CHOOSE i \in at : \A j \in at : i <= j) + 1].d)

LargeLimit == 1000

\* DataExfiltrationAnalyzer.analyze
ExfiltrationAnalyze(query) ==
    LET limit_match == FirstNumberAfter("LIMIT", query.sql)
        offset_match == FirstNumberAfter("OFFSET", query.sql)
    IN  PatternFinding("data_exfiltration", "Data exfiltration pattern detected",
            TierMatches(ExfiltrationPatterns(HIGH), HIGH, query.sql)
            \o TierMatches(ExfiltrationPatterns(MEDIUM), MEDIUM, query.sql)
            \o (IF limit_match # None /\ IntOf(limit_match[1]) > LargeLimit
                THEN << <<LOW, <<"large LIMIT", limit_match[1]>> >> >> ELSE << >>)
            \o (IF offset_match # None /\ IntOf(offset_match[1]) > 0
                THEN << <<LOW, <<"OFFSET pagination", offset_match[1]>> >> >> ELSE << >>))

----------------------------------------------------------------------------
(* The detector driven directly, as tests/unit/test_volume_anomaly.py does *)

SampleSql == <<"SELECT", "1">>
Users == {"user1", "user2"}
Times == 0..MaxTime

OptionOf(S) == {None} \cup {Some(x) : x \in S}

\* every shape of Query the detector distinguishes
VolumeQueries ==
    {Query(SampleSql, None)} \cup
    {Query(SampleSql, Some(QueryMetadata(t, u))) :
        t \in OptionOf(Times), u \in OptionOf(Users)}

NoCall == [called |-> FALSE, user_id |-> ANONYMOUS, timestamp |-> 0,
           count |-> 0, result |-> None]

Min(a, b) == IF a < b THEN a ELSE b
Max(a, b) == IF a > b THEN a ELSE b

\* the detector's state, and the history of its calls, after analyze(query)
VolumeStep(query) ==
    LET r == VolumeAnalyze(queries, window_seconds, query, now)
    IN  /\ queries' = r.queries
        /\ last' = [called |-> TRUE, user_id |-> r.user_id,
                    timestamp |-> r.timestamp, count |-> r.count,
                    result |-> r.result]
        /\ ncalls' = ncalls + 1
        /\ t_min' = IF ncalls = 0 THEN r.timestamp ELSE Min(t_min, r.timestamp)
        /\ t_max' = IF ncalls = 0 THEN r.timestamp ELSE Max(t_max, r.timestamp)
        /\ seen_keys' = seen_keys \cup {r.user_id}
        /\ UNCHANGED window_seconds

\* await analyzer.analyze(query), called directly
AnalyzeCall(query) ==
    /\ VolumeStep(query)
    /\ UNCHANGED <<now, pipeVars, extVars>>

\* the wall clock advances
Tick(limit) ==
    /\ now < limit
    /\ now' = now + 1
    /\ UNCHANGED <<volVars, pipeVars, extVars>>

\* VolumeAnomalyAnalyzer(window_seconds=window)
InitAnalyzer(window) ==
    /\ window_seconds = window
    /\ queries = <<>>
    /\ now = 0
    /\ ncalls = 0
    /\ last = NoCall
    /\ t_min = 0
    /\ t_max = 0
    /\ seen_keys = {}

\* no pipeline is built
NoPipeline ==
    /\ input_queries = <<>>
    /\ input_index = 0
    /\ analyzers = <<>>
    /\ outputs = <<>>
    /\ delivered = <<>>
    /\ pc = "setup"
    /\ cur_query = None
    /\ cur_findings = <<>>
    /\ ai = 1
    /\ cur_alert = None
    /\ oi = 1
    /\ events = <<>>

\* no query without a user was analysed
NoAnon == shapes = {}

\* no Alert was constructed
NoAlert ==
    /\ alert = None
    /\ alert_severity = None

\* no pattern detector is driven on its own
NoDet ==
    /\ det_sql = <<>>
    /\ inj_result = <<>>
    /\ exf_result = <<>>

\* no parser is called on its own
NoParse ==
    /\ parse_input = [kind |-> "none"]
    /\ parse_outcome = <<>>

\* no input adapter is in use
NoAdapter ==
    /\ adapter = "none"
    /\ records = <<>>
    /\ rec_index = 0
    /\ sb_queries = <<>>
    /\ adapter_pc = "new"
    /\ yielded = <<>>

\* no request to the Management API is made
NoHttp ==
    /\ http_client = FALSE
    /\ http_pc = "start"
    /\ http_retries = 0
    /\ http_response = None
    /\ http_sent = 0
    /\ http_statuses = <<>>
    /\ http_sleeps = <<>>
    /\ http_raised = None

\* no log query is made
NoLogQuery ==
    /\ lq_now = 0
    /\ lq_start = None
    /\ lq_end = None
    /\ lq_limit = 0
    /\ lq_pc = "start"
    /\ lq_params = None
    /\ lq_calls = 0
    /\ lq_raised = None
    /\ lq_status = None

\* no history of the analyze calls is kept
NoHistory ==
    call_log = <<>>

\* no second detector is set up
NoPair ==
    /\ ref_queries = <<>>
    /\ ref_result = None
    /\ own_events = 0
    /\ other_events = 0

\* no registry is called on its own
NoTwice ==
    /\ first_findings = <<>>
    /\ twice_last = None

\* no input source is iterated on its own
NoSource ==
    /\ src_kind = "none"
    /\ src_items = <<>>
    /\ src_queries = <<>>
    /\ src_index = 0
    /\ src_fetched = FALSE
    /\ src_pc = "idle"
    /\ src_last = [op |-> "none", outcome |-> "none"]
    /\ src_fetches = 0
    /\ src_out = <<>>
    /\ src_prev = None
    /\ src_stopped = FALSE
    /\ src_ops = 0

\* no pipelines share a detector
NoLoop ==
    /\ loop_running = 0
    /\ task_pc = <<>>
    /\ task_left = <<>>
    /\ observed = <<>>

\* the components that are driven on their own, but those in used, are not in use
NoExtBut(used) ==
    /\ IF "anon" \in used THEN TRUE ELSE NoAnon
    /\ IF "alert" \in used THEN TRUE ELSE NoAlert
    /\ IF "det" \in used THEN TRUE ELSE NoDet
    /\ IF "parse" \in used THEN TRUE ELSE NoParse
    /\ IF "adapter" \in used THEN TRUE ELSE NoAdapter
    /\ IF "http" \in used THEN TRUE ELSE NoHttp
    /\ IF "logq" \in used THEN TRUE ELSE NoLogQuery
    /\ IF "hist" \in used THEN TRUE ELSE NoHistory
    /\ IF "pair" \in used THEN TRUE ELSE NoPair
    /\ IF "twice" \in used THEN TRUE ELSE NoTwice
    /\ IF "src" \in used THEN TRUE ELSE NoSource
    /\ IF "loop" \in used THEN TRUE ELSE NoLoop

NoExt == NoExtBut({})

\* the components in the set changed take a step; the others stay as they are
Ext(changed) ==
    /\ IF "anon" \in changed THEN TRUE ELSE UNCHANGED anonVars
    /\ IF "alert" \in changed THEN TRUE ELSE UNCHANGED alertVars
    /\ IF "det" \in changed THEN TRUE ELSE UNCHANGED detVars
    /\ IF "parse" \in changed THEN TRUE ELSE UNCHANGED parseVars
    /\ IF "adapter" \in changed THEN TRUE ELSE UNCHANGED adapterVars
    /\ IF "http" \in changed THEN TRUE ELSE UNCHANGED httpVars
    /\ IF "logq" \in changed THEN TRUE ELSE UNCHANGED logqVars
    /\ IF "hist" \in changed THEN TRUE ELSE UNCHANGED histVars
    /\ IF "pair" \in changed THEN TRUE ELSE UNCHANGED pairVars
    /\ IF "twice" \in changed THEN TRUE ELSE UNCHANGED twiceVars
    /\ IF "src" \in changed THEN TRUE ELSE UNCHANGED srcVars
    /\ IF "loop" \in changed THEN TRUE ELSE UNCHANGED loopVars

InitVolume ==
    /\ \E window \in 1..MaxWindow : InitAnalyzer(window)
    /\ NoPipeline
    /\ NoExt

VolumeCall ==
    /\ ncalls < MaxCalls
    /\ \E query \in VolumeQueries : AnalyzeCall(query)

VolumeTick == Tick(MaxTime)

NextVolume == VolumeCall \/ VolumeTick

SpecVolume == InitVolume /\ [][NextVolume]_vars

\* The burst workload: one key floods the detector.  The first call fixes the
\* key; the event times are the wall clock (no timestamp in the metadata, or
\* a timestamp equal to the clock).
BurstQueries ==
    {Query(SampleSql, None)} \cup
    {Query(SampleSql, Some(QueryMetadata(t, u))) :
        t \in {None, Some(now)}, u \in OptionOf({"user1"})}

BurstCall ==
    /\ ncalls < MaxBurst
    /\ \E query \in BurstQueries :
          /\ ncalls = 0 \/ ResolveUser(query) = last.user_id
          /\ AnalyzeCall(query)

BurstTick == Tick(MaxClock)

NextBurst == BurstCall \/ BurstTick

\* the windows of the detectors that the burst workload floods
BurstWindows == {1, 2}

InitBurst ==
    /\ \E window \in BurstWindows : InitAnalyzer(window)
    /\ NoPipeline
    /\ NoExt

SpecBurst == InitBurst /\ [][NextBurst]_vars

\* The workload of TestAnonymousQueries: every query lacks a user, either
\* because it has no metadata or because its metadata has no user_id; the
\* event times are the wall clock.
AnonQueries ==
    {Query(SampleSql, None)} \cup
    {Query(SampleSql, Some(QueryMetadata(t, None))) : t \in {None, Some(now)}}

\* the way a query lacks a user
Shape(query) == IF query.metadata = None THEN "no_metadata" ELSE "no_user_id"

AnonCall ==
    /\ ncalls < MaxAnon
    /\ \E query \in AnonQueries :
          /\ VolumeStep(query)
          /\ shapes' = shapes \cup {Shape(query)}
    /\ UNCHANGED <<now, pipeVars>>
    /\ Ext({"anon"})

AnonTick == Tick(MaxClock)

NextAnon == AnonCall \/ AnonTick

SpecAnon == InitBurst /\ [][NextAnon]_vars

----------------------------------------------------------------------------
(* AnalyzerRegistry (analyzers/registry.py), ManualInput (input/manual.py), *)
(* the sinks (output/) and QueryPipeline (core/pipeline.py)                *)

AnalyzerNames == {"sql_injection", "data_exfiltration", "volume_anomaly"}
SinkNames == {"console", "sqs"}

DefaultWindow == 60

Alert(q, fs, timestamp) == [query |-> q, findings |-> fs, timestamp |-> timestamp]

\* a call the pipeline made: op is the call, qi the source position of the
\* query it is about, idx the position of the detector or sink, val its value
Event(op, qi, idx, val) == [op |-> op, qi |-> qi, idx |-> idx, val |-> val]

\* sample queries: tests/integration/test_pipeline.py and the scenarios
QClean ==
    Query(<<W("SELECT"), W("id"), W(","), W("name"), W("FROM"), W("products")>>, None)
QTautology ==
    Query(<<W("SELECT"), W("*"), W("FROM"), W("users"), W("WHERE"), W("id"), W("="),
            N(<<1>>), W("OR"), N(<<1>>), W("="), N(<<1>>)>>,
          Some(QueryMetadata(Some(0), Some("user1"))))
QStacked ==
    Query(<<W("SELECT"), N(<<1>>), W(";"), W("DROP"), W("TABLE"), W("users")>>,
          Some(QueryMetadata(None, Some("user2"))))
PipelineQueries == {QClean, QTautology, QStacked}

SeqsUpTo(S, n) == UNION {[1..k -> S] : k \in 0..n}

\* faulty variant: the index moves on by two, so every other query is lost
ManualNextSkipping(qs, index) ==
    IF index >= Len(qs) THEN [stop |-> TRUE, pos |-> 0, index |-> index]
    ELSE [stop |-> FALSE, pos |-> index + 1, index |-> index + 2]

\* faulty variant: the queries are yielded from the end of the tuple
ManualNextFromEnd(qs, index) ==
    IF index >= Len(qs) THEN [stop |-> TRUE, pos |-> 0, index |-> index]
    ELSE [stop |-> FALSE, pos |-> Len(qs) - index, index |-> index + 1]

\* ManualInput.__anext__: StopAsyncIteration, or the position of the query
\* yielded and the new _index
ManualNext(qs, index) ==
    IF index >= Len(qs) THEN [stop |-> TRUE, pos |-> 0, index |-> index]
    ELSE [stop |-> FALSE, pos |-> index + 1, index |-> index + 1]

\* faulty variant: analyze_all stops at the first finding
MoreAnalyzersUntilFinding(position, registered, fs) ==
    position <= Len(registered) /\ fs = <<>>

\* analyze_all, line 20: for analyzer in self._analyzers
MoreAnalyzers(position, registered, fs) == position <= Len(registered)

\* analyze_all, lines 21-23: the result is appended unless it is None
Collect(fs, result) == IF result # None THEN Append(fs, result[1]) ELSE fs

\* faulty variant: an alert is built for every query
ShouldAlertAlways(fs) == TRUE

\* run, line 23: if findings
ShouldAlert(fs) == fs # <<>>

\* faulty variant: the loop over the sinks ends after the first send
AfterSendBreak(position, sinks) == [pc |-> "next", oi |-> position]

\* run, lines 25-26: after a send returns the loop goes on to the next sink,
\* and after the last one run asks the source for the next query
AfterSend(position, sinks) ==
    IF position < Len(sinks) THEN [pc |-> "send", oi |-> position + 1]
    ELSE [pc |-> "next", oi |-> position]

\* faulty variant: a failure of a send is caught and the loop goes on
AfterRaiseSwallow(position, sinks) == AfterSend(position, sinks)

\* run, line 26: nothing catches an exception of send; it ends run
AfterRaise(position, sinks) == [pc |-> "failed", oi |-> position]

\* a send of the console sink only prints; a send of the SQS sink can fail
CanFail(sink) == sink = "sqs"

\* ManualInput(queries), AnalyzerRegistry(), VolumeAnomalyAnalyzer() and the sinks
Init ==
    /\ InitAnalyzer(DefaultWindow)
    /\ input_queries \in SeqsUpTo(PipelineQueries, MaxQueries)
    /\ input_index = 0
    /\ analyzers = <<>>
    /\ outputs \in SeqsUpTo(SinkNames, MaxOutputs)
    /\ delivered = [i \in DOMAIN outputs |-> <<>>]
    /\ pc = "setup"
    /\ cur_query = None
    /\ cur_findings = <<>>
    /\ ai = 1
    /\ cur_alert = None
    /\ oi = 1
    /\ events = <<>>
    /\ NoExt

\* AnalyzerRegistry.register, of a detector that is not yet registered
Register ==
    /\ pc = "setup"
    /\ Len(analyzers) < MaxAnalyzers
    /\ \E name \in AnalyzerNames \ {analyzers[k] : k \in DOMAIN analyzers} :
          analyzers' = Append(analyzers, name)
    /\ UNCHANGED <<extVars, volVars, now, input_queries, input_index, outputs, delivered, pc,
                   cur_query, cur_findings, ai, cur_alert, oi, events>>

\* QueryPipeline(input_source, registry, outputs).run() is called
Run ==
    /\ pc = "setup"
    /\ pc' = "next"
    /\ UNCHANGED <<extVars, volVars, now, input_queries, input_index, analyzers, outputs,
                   delivered, cur_query, cur_findings, ai, cur_alert, oi, events>>

\* run, line 21: async for query in self._input
Anext ==
    /\ pc = "next"
    /\ LET r == ManualNext(input_queries, input_index)
       IN  /\ input_index' = r.index
           /\ IF r.stop
              THEN /\ pc' = "done"
                   /\ events' = Append(events, Event("stop", 0, 0, None))
                   /\ UNCHANGED <<cur_query, cur_findings, ai>>
              ELSE /\ pc' = "analyze"
                   /\ cur_query' = Some(input_queries[r.pos])
                   /\ cur_findings' = <<>>
                   /\ ai' = 1
                   /\ events' = Append(events,
                          Event("anext", r.pos, 0, Some(input_queries[r.pos])))
    /\ UNCHANGED <<extVars, volVars, now, input_queries, analyzers, outputs, delivered,
                   cur_alert, oi>>

\* the source position of the query being processed
CurPos == events[CHOOSE p \in DOMAIN events :
                    /\ events[p].op = "anext"
                    /\ \A r \in DOMAIN events : events[r].op = "anext" => r <= p].qi

\* analyze_all, lines 20-23: one turn of the loop, result = await analyzer.analyze(query)
AnalyzeOne ==
    /\ pc = "analyze"
    /\ MoreAnalyzers(ai, analyzers, cur_findings)
    /\ LET name == analyzers[ai]
           result == IF name = "sql_injection" THEN InjectionAnalyze(cur_query[1])
                     ELSE IF name = "data_exfiltration"
                          THEN ExfiltrationAnalyze(cur_query[1])
                     ELSE VolumeAnalyze(queries, window_seconds, cur_query[1], now).result
       IN  /\ IF name = "volume_anomaly" THEN VolumeStep(cur_query[1])
                                         ELSE UNCHANGED volVars
           /\ cur_findings' = Collect(cur_findings, result)
           /\ events' = Append(events, Event("analyze", CurPos, ai, result))
    /\ ai' = ai + 1
    /\ UNCHANGED <<extVars, now, input_queries, input_index, analyzers, outputs,
                   delivered, pc, cur_query, cur_alert, oi>>

\* analyze_all, line 24, and run, lines 22-25: findings is returned; if it is
\* not empty the alert is built and the loop over the sinks starts
AnalyzeReturn ==
    /\ pc = "analyze"
    /\ ~MoreAnalyzers(ai, analyzers, cur_findings)
    /\ IF ShouldAlert(cur_findings)
       THEN LET a == Alert(cur_query[1], cur_findings, now)
            IN  /\ cur_alert' = Some(a)
                /\ oi' = 1
                /\ pc' = IF Len(outputs) >= 1 THEN "send" ELSE "next"
                /\ events' = events \o <<Event("findings", CurPos, 0, cur_findings),
                                         Event("alert", CurPos, 0, Some(a))>>
       ELSE /\ pc' = "next"
            /\ events' = Append(events, Event("findings", CurPos, 0, cur_findings))
            /\ UNCHANGED <<cur_alert, oi>>
    /\ UNCHANGED <<extVars, volVars, now, input_queries, input_index, analyzers, outputs,
                   delivered, cur_query, cur_findings, ai>>

\* run, line 26: output.send(alert) is called and awaited
SendBegin ==
    /\ pc = "send"
    /\ pc' = "sending"
    /\ events' = Append(events, Event("send", CurPos, oi, cur_alert))
    /\ UNCHANGED <<extVars, volVars, now, input_queries, input_index, analyzers, outputs,
                   delivered, cur_query, cur_findings, ai, cur_alert, oi>>

\* the send returns: the sink has taken the alert
SendReturn ==
    /\ pc = "sending"
    /\ delivered' = [delivered EXCEPT ![oi] = Append(@, cur_alert[1])]
    /\ events' = Append(events, Event("sent", CurPos, oi, None))
    /\ LET r == AfterSend(oi, outputs)
       IN  pc' = r.pc /\ oi' = r.oi
    /\ UNCHANGED <<extVars, volVars, now, input_queries, input_index, analyzers, outputs,
                   cur_query, cur_findings, ai, cur_alert>>

\* the send raises
SendRaise ==
    /\ pc = "sending"
    /\ CanFail(outputs[oi])
    /\ events' = Append(events, Event("raise", CurPos, oi, None))
    /\ LET r == AfterRaise(oi, outputs)
       IN  pc' = r.pc /\ oi' = r.oi
    /\ UNCHANGED <<extVars, volVars, now, input_queries, input_index, analyzers, outputs,
                   delivered, cur_query, cur_findings, ai, cur_alert>>

Next ==
    \/ Register
    \/ Run
    \/ Anext
    \/ AnalyzeOne
    \/ AnalyzeReturn
    \/ SendBegin
    \/ SendReturn
    \/ SendRaise

Spec == Init /\ [][Next]_vars

----------------------------------------------------------------------------
(* Alert.severity: domain/models.py, constructed and read as                *)
(* tests/unit/test_domain.py does                                          *)

RECURSIVE MaxFindingSeverity(_)
\* max(finding.severity for finding in findings), findings not empty
MaxFindingSeverity(fs) ==
    IF Len(fs) = 1 THEN fs[1].severity
    ELSE LET rest == MaxFindingSeverity(Tail(fs))
         IN  IF fs[1].severity > rest THEN fs[1].severity ELSE rest

\* faulty variant: the severity of the first finding
AlertSeverityOfFirst(a) ==
    IF a.findings = <<>> THEN LOW ELSE a.findings[1].severity

\* Alert.severity
AlertSeverity(a) ==
    IF a.findings = <<>> THEN LOW ELSE MaxFindingSeverity(a.findings)

\* the findings an Alert is constructed with
SampleFindings ==
    {Finding(name, severity, <<"message">>, None) :
        name \in AnalyzerNames, severity \in Severity}

InitAlert ==
    /\ InitAnalyzer(DefaultWindow)
    /\ NoPipeline
    /\ NoExt

\* Alert(query=query, findings=findings); findings defaults to the empty tuple
NewAlert ==
    /\ alert = None
    /\ \E fs \in SeqsUpTo(SampleFindings, MaxFindings) :
          alert' = Some(Alert(QClean, fs, now))
    /\ UNCHANGED <<alert_severity, volVars, now, pipeVars>>
    /\ Ext({"alert"})

\* alert.severity is read
ReadSeverity ==
    /\ alert # None
    /\ alert_severity = None
    /\ alert_severity' = Some(AlertSeverity(alert[1]))
    /\ UNCHANGED <<alert, volVars, now, pipeVars>>
    /\ Ext({"alert"})

NextAlert == NewAlert \/ ReadSeverity

SpecAlert == InitAlert /\ [][NextAlert]_vars

----------------------------------------------------------------------------
(* The pattern detectors called directly on one SQL text, as               *)
(* tests/unit/test_sql_injection.py and test_data_exfiltration.py do.  The  *)
(* text is made of up to MaxFragments fragments.                            *)

Fragments == {
    <<W("SELECT"), W("id"), W("FROM"), W("products")>>,
    <<W("SELECT"), W("*"), W("FROM"), W("users")>>,
    <<W(";"), W("WAITFOR")>>,
    <<W("UNION"), W("SELECT"), W("password")>>,
    <<W("OR"), N(<<1>>), W("="), N(<<1>>)>>,
    <<W("SLEEP"), W("(")>>,
    <<W("LIMIT"), N(<<1, 0>>)>>,
    <<W("LIMIT"), N(<<1, 0, 0, 0>>)>>,
    <<W("LIMIT"), N(<<1, 0, 0, 1>>)>>,
    <<W("limit"), N(<<5, 0, 0, 0>>)>>,
    <<W("OFFSET"), N(<<0>>)>>,
    <<W("offset"), N(<<5>>)>> }

RECURSIVE Flatten(_)
\* the fragments joined, whitespace between them
Flatten(parts) == IF parts = <<>> THEN <<>> ELSE parts[1] \o Flatten(Tail(parts))

SampleTexts == {Flatten(parts) : parts \in SeqsUpTo(Fragments, MaxFragments)}

InitDetectors ==
    /\ InitAnalyzer(DefaultWindow)
    /\ NoPipeline
    /\ NoExtBut({"det"})
    /\ det_sql \in SampleTexts
    /\ inj_result = <<>>
    /\ exf_result = <<>>

\* await SQLInjectionAnalyzer().analyze(Query(sql=det_sql))
InjectionCall ==
    /\ inj_result = <<>>
    /\ inj_result' = <<InjectionAnalyze(Query(det_sql, None))>>
    /\ UNCHANGED <<det_sql, exf_result, volVars, now, pipeVars>>
    /\ Ext({"det"})

\* await DataExfiltrationAnalyzer().analyze(Query(sql=det_sql))
ExfiltrationCall ==
    /\ exf_result = <<>>
    /\ exf_result' = <<ExfiltrationAnalyze(Query(det_sql, None))>>
    /\ UNCHANGED <<det_sql, inj_result, volVars, now, pipeVars>>
    /\ Ext({"det"})

NextDetectors == InjectionCall \/ ExfiltrationCall

SpecDetectors == InitDetectors /\ [][NextDetectors]_vars

----------------------------------------------------------------------------
(* PgAuditLogParser: input/supabase/parser.py.  A str is the sequence of   *)
(* its characters.                                                         *)

Digits == {"0", "1", "2", "3", "4", "5", "6", "7", "8", "9"}
Spaces == {" ", "\t"}
\* \w: the letters, the digits and the underscore
WordChars ==
    {"A", "B", "C", "D", "E", "F", "G", "H", "I", "J", "K", "L", "M", "N", "O", "P",
     "Q", "R", "S", "T", "U", "V", "W", "X", "Y", "Z", "a", "b", "c", "d", "e", "f",
     "g", "h", "i", "j", "k", "l", "m", "n", "o", "p", "q", "r", "s", "t", "u", "v",
     "w", "x", "y", "z", "_"} \cup Digits

AuditToken == <<"A", "U", "D", "I", "T", ":">>
SessionType == <<"S", "E", "S", "S", "I", "O", "N">>
ObjectType == <<"O", "B", "J", "E", "C", "T">>
NotLogged == <<"<", "n", "o", "t", " ", "l", "o", "g", "g", "e", "d", ">">>

RECURSIVE LStrip(_)
LStrip(s) == IF s # <<>> /\ Head(s) \in Spaces THEN LStrip(Tail(s)) ELSE s

RECURSIVE RStrip(_)
RStrip(s) ==
    IF s # <<>> /\ s[Len(s)] \in Spaces THEN RStrip(SubSeq(s, 1, Len(s) - 1)) ELSE s

\* str.strip()
Strip(s) == LStrip(RStrip(s))

RECURSIVE RStripCommas(_)
\* str.rstrip(",")
RStripCommas(s) ==
    IF s # <<>> /\ s[Len(s)] = "," THEN RStripCommas(SubSeq(s, 1, Len(s) - 1)) ELSE s

\* str.startswith and str.endswith
StartsWith(s, prefix) ==
    Len(s) >= Len(prefix) /\ SubSeq(s, 1, Len(prefix)) = prefix
EndsWith(s, suffix) ==
    Len(s) >= Len(suffix) /\ SubSeq(s, Len(s) - Len(suffix) + 1, Len(s)) = suffix

\* the position of the k-th comma of s (0 when s has fewer commas)
CommaAt(s, k) ==
    LET at == {i \in DOMAIN s :
                  s[i] = "," /\ Cardinality({j \in 1..i : s[j] = ","}) = k}
    IN  IF at = {} THEN 0 ELSE CHOOSE i \in at : TRUE

\* the text between the k-th comma of s and the next one (k = 0: before the first)
FieldOf(s, k) ==
    SubSeq(s, (IF k = 0 THEN 0 ELSE CommaAt(s, k)) + 1, CommaAt(s, k + 1) - 1)

AllIn(s, class) == \A i \in DOMAIN s : s[i] \in class

RECURSIVE IntOfChars(_)
\* int(text) of a str of decimal digits
IntOfChars(s) ==
    IF s = <<>> THEN 0
    ELSE 10 * IntOfChars(SubSeq(s, 1, Len(s) - 1))
         + (CHOOSE v \in 0..9 :
               s[Len(s)] = <<"0", "1", "2", "3", "4", "5", "6", "7", "8", "9">>[v + 1])

\* AUDIT_PREFIX.match(s): the fields of the pattern hold, one per comma
PrefixMatches(s) ==
    /\ CommaAt(s, 7) # 0
    /\ StartsWith(s, AuditToken)
    /\ LStrip(SubSeq(FieldOf(s, 0), Len(AuditToken) + 1, Len(FieldOf(s, 0))))
          \in {SessionType, ObjectType}
    /\ FieldOf(s, 1) # <<>> /\ AllIn(FieldOf(s, 1), Digits)
    /\ FieldOf(s, 2) # <<>> /\ AllIn(FieldOf(s, 2), Digits)
    /\ FieldOf(s, 3) # <<>> /\ AllIn(FieldOf(s, 3), WordChars)
    /\ LET command == FieldOf(s, 4)
       IN  /\ command # <<>>
           /\ AllIn(command, WordChars \cup Spaces)
           /\ command[1] \in WordChars
           /\ command[Len(command)] \in WordChars

\* group or None
OrNone(s) == IF s = <<>> THEN None ELSE Some(s)

ParsedAuditLog(s, statement, parameter) ==
    [audit_type |-> LStrip(SubSeq(FieldOf(s, 0), Len(AuditToken) + 1, Len(FieldOf(s, 0)))),
     statement_id |-> IntOfChars(FieldOf(s, 1)),
     substatement_id |-> IntOfChars(FieldOf(s, 2)),
     command_class |-> FieldOf(s, 3),
     command |-> FieldOf(s, 4),
     object_type |-> OrNone(FieldOf(s, 5)),
     object_name |-> OrNone(FieldOf(s, 6)),
     statement |-> statement,
     parameter |-> parameter]

\* parse_event_message: the pattern is matched against the stripped message,
\* and the end of the match is used as an index into the message as given
parse_event_message(event_message) ==
    LET stripped == Strip(event_message)
    IN  IF ~PrefixMatches(stripped) THEN None
        ELSE LET statement_start == CommaAt(stripped, 7)
                 remainder == SubSeq(event_message, statement_start + 1,
                                     Len(event_message))
                 statement == Strip(remainder)
             IN  IF EndsWith(statement, NotLogged)
                 THEN Some(ParsedAuditLog(stripped,
                          Strip(RStripCommas(SubSeq(statement, 1,
                                                    Len(statement) - Len(NotLogged)))),
                          Some(NotLogged)))
                 ELSE Some(ParsedAuditLog(stripped, statement, None))


\* A value of a row of the Management API, by its Python type: the text of a
\* str; for a timestamp the time meant (seconds) and how the value converts:
\* "ok", "malformed" (a str that is not ISO 8601), "nan", "year_out_of_range"
\* (a number that datetime.fromtimestamp rejects with ValueError) or
\* "time_t_overflow" (a number that it rejects with OverflowError)
PyValue(type, text, seconds, range) ==
    [type |-> type, text |-> text, seconds |-> seconds, range |-> range]
Missing == PyValue("missing", <<>>, 0, "")
PyNone == PyValue("None", <<>>, 0, "")
PyStr(text) == PyValue("str", text, 0, "")

\* the outcome of a call: it returned a value, or raised an exception
Returned(value) == [raised |-> "", value |-> value]
Raised(exception) == [raised |-> exception, value |-> None]

\* _extract_timestamp: Returned(Optional datetime), or the exception that
\* neither except clause catches
extract_timestamp(ts) ==
    IF ts.type \in {"missing", "None"} THEN Returned(None)
    ELSE IF ts.type = "datetime" THEN Returned(Some(ts.seconds))
    ELSE IF ts.type = "str"
         THEN (IF ts.range = "ok" THEN Returned(Some(ts.seconds)) ELSE Returned(None))
    ELSE IF ts.type \in {"int", "float"}
         THEN (IF ts.range = "ok" THEN Returned(Some(ts.seconds))
               ELSE IF ts.range = "time_t_overflow" THEN Raised("OverflowError")
               ELSE Returned(None))
    ELSE Returned(None)

\* _extract_nested(row, "parsed.<key>", "<key>") of a row without "parsed"
extract_nested(value) ==
    IF value.type \in {"missing", "None"} THEN None ELSE Some(value.text)

\* bool(value) of a value of a row
Truthy(value) ==
    CASE value.type \in {"missing", "None"} -> FALSE
      [] value.type = "str" -> value.text # <<>>
      [] value.type \in {"int", "float"} -> value.range # "zero"
      [] OTHER -> TRUE

\* the entry the row and line parsers return: the audit fields and the context
LogEntry(parsed, timestamp, user_name, session_id) ==
    [audit |-> parsed, timestamp |-> timestamp, user_name |-> user_name,
     session_id |-> session_id]

\* parse_log_row; row.get("event_message", "") is "" for a missing key
parse_log_row(row) ==
    LET event_message == IF row.event_message.type = "missing" THEN PyStr(<<>>)
                         ELSE row.event_message
    IN  IF ~Truthy(event_message) THEN Returned(None)
        ELSE IF event_message.type # "str" THEN Raised("AttributeError")
        ELSE IF ~StartsWith(event_message.text, AuditToken) THEN Returned(None)
        ELSE LET parsed == parse_event_message(event_message.text)
                 timestamp == extract_timestamp(row.timestamp)
             IN  IF parsed = None THEN Returned(None)
                 ELSE IF timestamp.raised # "" THEN timestamp
                 ELSE Returned(Some(LogEntry(parsed[1], timestamp.value,
                                             extract_nested(row.user_name),
                                             extract_nested(row.session_id))))

----------------------------------------------------------------------------
(* PostgresLogLineParser: input/logfile/parser.py.  A line is blank, or    *)
(* does not have the shape of LOG_LINE_PATTERN, or is given by the groups  *)
(* of the pattern: the month and the day of ts, the user of conn, pid and  *)
(* message.                                                                *)

LogLine(kind, month, day, user, pid, message) ==
    [kind |-> kind, month |-> month, day |-> day, user |-> user, pid |-> pid,
     message |-> message]

DaysIn(month) == IF month = 2 THEN 28 ELSE IF month \in {4, 6, 9, 11} THEN 30 ELSE 31

\* datetime.strptime(ts_str, "%Y-%m-%d %H:%M:%S"): ValueError unless the
\* digits are a date of the calendar
parse_timestamp(month, day) ==
    IF month >= 1 /\ month <= 12 /\ day >= 1 /\ day <= DaysIn(month)
    THEN Returned(month * 100 + day)
    ELSE Raised("ValueError")

\* parse_line
parse_line(line) ==
    IF line.kind # "shaped" THEN Returned(None)
    ELSE IF ~StartsWith(line.message, AuditToken) THEN Returned(None)
    ELSE LET timestamp == parse_timestamp(line.month, line.day)
             parsed == parse_event_message(line.message)
         IN  IF timestamp.raised # "" THEN timestamp
             ELSE IF parsed = None THEN Returned(None)
             ELSE Returned(Some(LogEntry(parsed[1], Some(timestamp.value), line.user,
                                         IF line.pid # 0 THEN Some(line.pid) ELSE None)))

----------------------------------------------------------------------------
(* The parsers called directly on one input, as                            *)
(* tests/unit/test_supabase_parser.py and test_logfile_parser.py do        *)

\* seven-field prefixes that AUDIT_PREFIX accepts
GoodPrefixes == {
    <<"A", "U", "D", "I", "T", ":", " ", "S", "E", "S", "S", "I", "O", "N", ",", "1", ",", "1", ",", "R", "E", "A", "D", ",", "S", "E", "L", "E", "C", "T", ",", ",", ",">>,
    <<"A", "U", "D", "I", "T", ":", "O", "B", "J", "E", "C", "T", ",", "2", ",", "1", ",", "W", "R", "I", "T", "E", ",", "I", "N", "S", "E", "R", "T", ",", "T", "A", "B", "L", "E", ",", "t", ",">> }

\* starts of messages that AUDIT_PREFIX rejects
BadPrefixes == {
    <<"A", "U", "D", "I", "T", ":", " ", "B", "O", "G", "U", "S", ",", "1", ",", "1", ",", "R", "E", "A", "D", ",", "S", "E", "L", "E", "C", "T", ",", ",", ",">>,
    <<"A", "U", "D", "I", "T", ":", " ", "S", "E", "S", "S", "I", "O", "N", ",", "1", ",", "1", ",">>,
    <<"L", "O", "G", ":", " ">> }

\* statements: without and with commas, and the empty one
Statements == { <<"a">>, <<"a", ",", " ", "b", ",", "c">>, <<>> }

\* what follows the statement: nothing, or the redaction marker after a comma
Redactions == { <<>>, <<",">> \o NotLogged }

Blanks(n) == [i \in 1..n |-> " "]

MessagesWith(leads, prefixes, trails) ==
    {Blanks(lead) \o prefix \o statement \o redaction \o Blanks(trail) :
        lead \in leads, prefix \in prefixes, statement \in Statements,
        redaction \in Redactions, trail \in trails}

\* the messages given to parse_event_message
SampleMessages == MessagesWith(0..MaxLead, GoodPrefixes \cup BadPrefixes, {0, 1})

\* the values of the timestamp of a row
SampleTimestamps == {
    Missing, PyNone,
    PyValue("datetime", <<>>, 1, "ok"),
    PyValue("str", <<>>, 1, "ok"),
    PyValue("str", <<>>, 0, "malformed"),
    PyValue("int", <<>>, 1, "ok"),
    PyValue("float", <<>>, 0, "nan"),
    PyValue("int", <<>>, 0, "year_out_of_range"),
    PyValue("int", <<>>, 0, "time_t_overflow"),
    PyValue("list", <<>>, 0, "") }

\* the values of the event_message of a row
SampleEventMessages ==
    {Missing, PyNone, PyStr(<<>>), PyValue("int", <<>>, 0, "ok")}
    \cup {PyStr(msg) : msg \in MessagesWith({0, 1}, GoodPrefixes \cup {<<"L", "O", "G", ":", " ">>}, {0})}

LogRow(event_message, timestamp, user_name) ==
    [event_message |-> event_message, timestamp |-> timestamp,
     user_name |-> user_name, session_id |-> Missing]

SampleRows ==
    {LogRow(event_message, timestamp, user_name) :
        event_message \in SampleEventMessages, timestamp \in SampleTimestamps,
        user_name \in {Missing, PyStr(<<"u">>)}}

SampleLines ==
    {LogLine("blank", 0, 0, None, 0, <<>>), LogLine("unshaped", 0, 0, None, 0, <<>>)}
    \cup {LogLine("shaped", month, day, user, 7, msg) :
            month \in {1, 2, 13}, day \in {14, 30}, user \in {None, Some(<<"u">>)},
            msg \in MessagesWith({0}, GoodPrefixes \cup BadPrefixes, {0})}

InitParser ==
    /\ InitAnalyzer(DefaultWindow)
    /\ NoPipeline
    /\ NoExtBut({"parse"})
    /\ parse_input \in
          {[kind |-> "message", value |-> msg] : msg \in SampleMessages}
          \cup {[kind |-> "row", value |-> row] : row \in SampleRows}
          \cup {[kind |-> "line", value |-> line] : line \in SampleLines}
    /\ parse_outcome = <<>>

\* the call of a parser ends with the outcome
ParserEnds(outcome) ==
    /\ parse_outcome = <<>>
    /\ parse_outcome' = <<outcome>>
    /\ UNCHANGED <<parse_input, volVars, now, pipeVars>>
    /\ Ext({"parse"})

\* PgAuditLogParser().parse_event_message(message)
ParseEventMessage ==
    /\ parse_input.kind = "message"
    /\ ParserEnds(Returned(parse_event_message(parse_input.value)))

\* PgAuditLogParser().parse_log_row(row)
ParseLogRow ==
    /\ parse_input.kind = "row"
    /\ ParserEnds(parse_log_row(parse_input.value))

\* PostgresLogLineParser().parse_line(line)
ParseLine ==
    /\ parse_input.kind = "line"
    /\ ParserEnds(parse_line(parse_input.value))

NextParser == ParseEventMessage \/ ParseLogRow \/ ParseLine

SpecParser == InitParser /\ [][NextParser]_vars

----------------------------------------------------------------------------
(* LogFileInput (input/logfile/adapter.py) and SupabaseLogInput            *)
(* (input/supabase/adapter.py), built from lines and from rows             *)

AuditMessageA == <<"A", "U", "D", "I", "T", ":", " ", "S", "E", "S", "S", "I", "O", "N", ",", "1", ",", "1", ",", "R", "E", "A", "D", ",", "S", "E", "L", "E", "C", "T", ",", ",", ",", "a">>
AuditMessageB == <<"A", "U", "D", "I", "T", ":", "O", "B", "J", "E", "C", "T", ",", "2", ",", "1", ",", "W", "R", "I", "T", "E", ",", "I", "N", "S", "E", "R", "T", ",", "T", "A", "B", "L", "E", ",", "t", ",", "a", ",", " ", "b", ",", "c">>
OtherMessage == <<"L", "O", "G", ":", " ", "x">>

\* audit lines, a line that is not an audit line, a line without the shape
\* of a log line, and an audit line whose date is not on the calendar
AdapterLines == {
    LogLine("shaped", 1, 14, Some(<<"u">>), 7, AuditMessageA),
    LogLine("shaped", 2, 14, None, 7, AuditMessageB),
    LogLine("shaped", 1, 14, Some(<<"u">>), 7, OtherMessage),
    LogLine("unshaped", 0, 0, None, 0, <<>>),
    LogLine("shaped", 13, 30, Some(<<"u">>), 7, AuditMessageA) }

\* audit rows (one with a timestamp that is not a time), a row that is not an
\* audit row, a row without event_message, and an audit row whose timestamp
\* is a number beyond the range of time_t
AdapterRows == {
    LogRow(PyStr(AuditMessageA), PyValue("str", <<>>, 1, "ok"), PyStr(<<"u">>)),
    LogRow(PyStr(AuditMessageB), PyValue("str", <<>>, 0, "malformed"), Missing),
    LogRow(PyStr(OtherMessage), PyValue("str", <<>>, 1, "ok"), PyStr(<<"u">>)),
    LogRow(Missing, Missing, Missing),
    LogRow(PyStr(AuditMessageA), PyValue("int", <<>>, 0, "time_t_overflow"), Missing) }

\* Query(sql=parsed.statement, metadata=QueryMetadata(timestamp, user_id))
QueryOf(entry) ==
    Query(entry.audit.statement, Some(QueryMetadata(entry.timestamp, entry.user_name)))

\* the parser call that an adapter makes for a record
ParseRecord(kind, record) ==
    IF kind = "logfile" THEN parse_line(record) ELSE parse_log_row(record)

\* the positions after position index of the records that are not skipped:
\* the parser returns an entry for them or raises
NotSkipped(kind, recs, index) ==
    {i \in (index + 1)..Len(recs) :
        LET outcome == ParseRecord(kind, recs[i])
        IN  outcome.raised # "" \/ outcome.value # None}

InitAdapter ==
    /\ InitAnalyzer(DefaultWindow)
    /\ NoPipeline
    /\ NoExtBut({"adapter"})
    /\ adapter \in {"logfile", "supabase"}
    /\ records \in SeqsUpTo(IF adapter = "logfile" THEN AdapterLines ELSE AdapterRows,
                            MaxRecords)
    /\ rec_index = 0
    /\ sb_queries = <<>>
    /\ adapter_pc = IF adapter = "logfile" THEN "ready" ELSE "new"
    /\ yielded = <<>>

AdapterFrame ==
    /\ UNCHANGED <<adapter, records, volVars, now, pipeVars>>
    /\ Ext({"adapter"})

\* LogFileInput.__anext__: the lines from _index on are parsed until one
\* gives an entry; the lines are exhausted; or parse_line raises
LogFileAnext ==
    /\ adapter = "logfile"
    /\ adapter_pc = "ready"
    /\ LET stops == NotSkipped("logfile", records, rec_index)
       IN  IF stops = {}
           THEN /\ rec_index' = Len(records)
                /\ adapter_pc' = "exhausted"
                /\ UNCHANGED yielded
           ELSE LET i == CHOOSE k \in stops : \A j \in stops : k <= j
                    outcome == parse_line(records[i])
                IN  /\ rec_index' = i
                    /\ IF outcome.raised # ""
                       THEN adapter_pc' = "raised" /\ UNCHANGED yielded
                       ELSE /\ yielded' = Append(yielded, QueryOf(outcome.value[1]))
                            /\ UNCHANGED adapter_pc
    /\ UNCHANGED sb_queries
    /\ AdapterFrame

\* SupabaseLogInput.from_log_rows: _parse_rows parses every row, and the
\* construction fails when parse_log_row raises
FromLogRows ==
    /\ adapter = "supabase"
    /\ adapter_pc = "new"
    /\ LET stops == NotSkipped("supabase", records, 0)
           outcomes == [i \in DOMAIN records |-> parse_log_row(records[i])]
           kept == SelectSeq(outcomes, LAMBDA o : o.raised = "" /\ o.value # None)
       IN  IF \E i \in stops : outcomes[i].raised # ""
           THEN adapter_pc' = "raised" /\ UNCHANGED sb_queries
           ELSE /\ adapter_pc' = "ready"
                /\ sb_queries' = [i \in DOMAIN kept |-> QueryOf(kept[i].value[1])]
    /\ UNCHANGED <<rec_index, yielded>>
    /\ AdapterFrame

\* SupabaseLogInput.__anext__
SupabaseAnext ==
    /\ adapter = "supabase"
    /\ adapter_pc = "ready"
    /\ IF rec_index >= Len(sb_queries)
       THEN adapter_pc' = "exhausted" /\ UNCHANGED <<rec_index, yielded>>
       ELSE /\ yielded' = Append(yielded, sb_queries[rec_index + 1])
            /\ rec_index' = rec_index + 1
            /\ UNCHANGED adapter_pc
    /\ UNCHANGED sb_queries
    /\ AdapterFrame

NextAdapter == LogFileAnext \/ FromLogRows \/ SupabaseAnext

SpecAdapter == InitAdapter /\ [][NextAdapter]_vars

----------------------------------------------------------------------------
(* SupabaseManagementClient._request: api/client.py.  Delays are in tenths *)
(* of a second.                                                            *)

MAX_RETRIES == 3
BASE_BACKOFF == 10
MAX_JITTER == 5

\* a Retry-After header: absent, empty, a number of seconds, or an HTTP date
RetryAfterHeaders ==
    {[kind |-> "absent", seconds |-> 0], [kind |-> "empty", seconds |-> 0],
     [kind |-> "seconds", seconds |-> 1], [kind |-> "seconds", seconds |-> 30],
     [kind |-> "date", seconds |-> 0]}

Response(status_code, retry_after) ==
    [status_code |-> status_code, retry_after |-> retry_after]

\* the responses of the server
Responses ==
    {Response(429, h) : h \in RetryAfterHeaders}
    \cup {Response(s, [kind |-> "absent", seconds |-> 0]) : s \in {200, 401, 403, 404, 500}}

Exception(name, retry_after) == [name |-> name, retry_after |-> retry_after]

RECURSIVE Pow2(_)
Pow2(n) == IF n = 0 THEN 1 ELSE 2 * Pow2(n - 1)

\* BASE_BACKOFF * (2**retries)
Backoff(retries) == BASE_BACKOFF * Pow2(retries)

\* RateLimitError(..., retry_after=float(retry_after) if retry_after else None);
\* float raises ValueError for a text that is not a number
RateLimitOutcome(header) ==
    IF header.kind \in {"absent", "empty"} THEN Exception("RateLimitError", None)
    ELSE IF header.kind = "seconds"
         THEN Exception("RateLimitError", Some(header.seconds))
    ELSE Exception("ValueError", None)

InitHttp ==
    /\ InitAnalyzer(DefaultWindow)
    /\ NoPipeline
    /\ NoExtBut({"http"})
    /\ http_client \in BOOLEAN
    /\ http_pc = "start"
    /\ http_retries = 0
    /\ http_response = None
    /\ http_sent = 0
    /\ http_statuses = <<>>
    /\ http_sleeps = <<>>
    /\ http_raised = None

HttpFrame ==
    /\ UNCHANGED <<http_client, volVars, now, pipeVars>>
    /\ Ext({"http"})

\* _request, lines 36-45: RuntimeError unless the client is set
RequestStart ==
    /\ http_pc = "start"
    /\ IF http_client
       THEN http_pc' = "loop" /\ UNCHANGED http_raised
       ELSE http_pc' = "raised" /\ http_raised' = Some(Exception("RuntimeError", None))
    /\ UNCHANGED <<http_retries, http_response, http_sent, http_statuses, http_sleeps>>
    /\ HttpFrame

\* line 47: the request is sent and the server answers
SendRequest ==
    /\ http_pc = "loop"
    /\ \E response \in Responses :
          /\ http_response' = Some(response)
          /\ http_statuses' = Append(http_statuses, response.status_code)
    /\ http_sent' = http_sent + 1
    /\ http_pc' = "got"
    /\ UNCHANGED <<http_retries, http_sleeps, http_raised>>
    /\ HttpFrame

\* line 47: the request is sent and the transport fails
SendFails ==
    /\ http_pc = "loop"
    /\ http_sent' = http_sent + 1
    /\ http_pc' = "raised"
    /\ http_raised' = Some(Exception("TransportError", None))
    /\ UNCHANGED <<http_retries, http_response, http_statuses, http_sleeps>>
    /\ HttpFrame

\* lines 49-60: a 429 response with retries left: sleep, count, go round
RetryAfterSleep ==
    /\ http_pc = "got"
    /\ http_response[1].status_code = 429
    /\ http_retries < MAX_RETRIES
    /\ \E jitter \in 0..MAX_JITTER :
          http_sleeps' = Append(http_sleeps, Backoff(http_retries) + jitter)
    /\ http_retries' = http_retries + 1
    /\ http_pc' = "loop"
    /\ UNCHANGED <<http_response, http_sent, http_statuses, http_raised>>
    /\ HttpFrame

\* lines 49-55: a 429 response with no retry left
GiveUp ==
    /\ http_pc = "got"
    /\ http_response[1].status_code = 429
    /\ http_retries >= MAX_RETRIES
    /\ http_raised' = Some(RateLimitOutcome(http_response[1].retry_after))
    /\ http_pc' = "raised"
    /\ UNCHANGED <<http_retries, http_response, http_sent, http_statuses, http_sleeps>>
    /\ HttpFrame

\* lines 62-69: any other response ends the call
Finish ==
    /\ http_pc = "got"
    /\ http_response[1].status_code # 429
    /\ LET status_code == http_response[1].status_code
       IN  IF status_code = 401
           THEN http_pc' = "raised"
                /\ http_raised' = Some(Exception("AuthenticationError", None))
           ELSE IF status_code = 404
           THEN http_pc' = "raised" /\ http_raised' = Some(Exception("NotFoundError", None))
           ELSE IF status_code >= 400
           THEN http_pc' = "raised"
                /\ http_raised' = Some(Exception("HTTPStatusError", None))
           ELSE http_pc' = "returned" /\ UNCHANGED http_raised
    /\ UNCHANGED <<http_retries, http_response, http_sent, http_statuses, http_sleeps>>
    /\ HttpFrame

NextHttp ==
    \/ RequestStart
    \/ SendRequest
    \/ SendFails
    \/ RetryAfterSleep
    \/ GiveUp
    \/ Finish

SpecHttp == InitHttp /\ [][NextHttp]_vars

----------------------------------------------------------------------------
(* SupabaseLogClient.query_logs and LogQueryParams: input/supabase/client.py. *)
(* A datetime is a number of minutes and a flag: aware of its time zone or    *)
(* naive.                                                                     *)

\* timedelta(hours=24), in minutes
MaxSpan == 1440
\* timedelta(minutes=1)
DefaultSpan == 1
\* the row limit of one query
MaxLimit == 1000

DateTime(minutes, aware) == [minutes |-> minutes, aware |-> aware]

SampleMinutes == {0, 60, 1500, 1501, 2940, 2941, 3000}

SampleDateTimes == {DateTime(t, a) : t \in SampleMinutes, a \in BOOLEAN}

LogQueryParams(start_time, end_time, limit) ==
    [start_time |-> start_time, end_time |-> end_time, limit |-> limit]

\* faulty variant: a span of 24 hours is rejected too
validate_inclusive(params) ==
    IF params.end_time.aware # params.start_time.aware THEN Some("TypeError")
    ELSE IF params.end_time.minutes <= params.start_time.minutes THEN Some("ValueError")
    ELSE IF params.end_time.minutes - params.start_time.minutes >= MaxSpan
         THEN Some("ValueError")
    ELSE None

\* LogQueryParams.validate: the exception raised, if any.  Comparing a naive
\* with an aware datetime raises TypeError.
validate(params) ==
    IF params.end_time.aware # params.start_time.aware THEN Some("TypeError")
    ELSE IF params.end_time.minutes <= params.start_time.minutes THEN Some("ValueError")
    ELSE IF params.end_time.minutes - params.start_time.minutes > MaxSpan
         THEN Some("ValueError")
    ELSE None

InitLogQuery ==
    /\ InitAnalyzer(DefaultWindow)
    /\ NoPipeline
    /\ NoExtBut({"logq"})
    /\ lq_now \in {1500, 3000}
    /\ lq_start \in {None} \cup {Some(d) : d \in SampleDateTimes}
    /\ lq_end \in {None} \cup {Some(d) : d \in SampleDateTimes}
    /\ lq_limit \in {10, 1000, 5000}
    /\ lq_pc = "start"
    /\ lq_params = None
    /\ lq_calls = 0
    /\ lq_raised = None
    /\ lq_status = None

LogQueryFrame ==
    /\ UNCHANGED <<lq_now, lq_start, lq_end, lq_limit, volVars, now, pipeVars>>
    /\ Ext({"logq"})

\* query_logs, lines 91-100: the defaults, the parameters and their validation
BuildParams ==
    /\ lq_pc = "start"
    /\ LET end_time == IF lq_end = None THEN DateTime(lq_now, TRUE) ELSE lq_end[1]
           start_time == IF lq_start = None
                         THEN DateTime(end_time.minutes - DefaultSpan, end_time.aware)
                         ELSE lq_start[1]
           params == LogQueryParams(start_time, end_time, Min(lq_limit, MaxLimit))
       IN  /\ lq_params' = Some(params)
           /\ lq_raised' = validate(params)
           /\ lq_pc' = IF validate(params) = None THEN "request" ELSE "raised"
    /\ UNCHANGED <<lq_calls, lq_status>>
    /\ LogQueryFrame

\* the status codes of the answers of the logs endpoint
LogStatuses == {200, 401, 403, 404, 429, 500}

\* response.raise_for_status(): httpx.HTTPStatusError for a 4xx or 5xx answer
raise_for_status(status_code) ==
    IF status_code >= 400 THEN Some("HTTPStatusError") ELSE None

\* query_logs, lines 112-124: the GET request and its answer
GetLogs ==
    /\ lq_pc = "request"
    /\ lq_calls' = lq_calls + 1
    /\ \E status_code \in LogStatuses :
          /\ lq_status' = Some(status_code)
          /\ lq_raised' = raise_for_status(status_code)
          /\ lq_pc' = IF raise_for_status(status_code) = None THEN "returned" ELSE "raised"
    /\ UNCHANGED lq_params
    /\ LogQueryFrame

\* query_logs, line 113: the GET request fails in the transport
GetLogsFails ==
    /\ lq_pc = "request"
    /\ lq_calls' = lq_calls + 1
    /\ lq_raised' = Some("TransportError")
    /\ lq_pc' = "raised"
    /\ UNCHANGED <<lq_params, lq_status>>
    /\ LogQueryFrame

NextLogQuery ==
    \/ BuildParams
    \/ GetLogs
    \/ GetLogsFails

SpecLogQuery == InitLogQuery /\ [][NextLogQuery]_vars

----------------------------------------------------------------------------
(* The volume detector fed with events of all users in the order of their *)
(* event times, as a log that is read front to back delivers them.        *)

InitOrdered ==
    /\ \E window \in 1..MaxWindow : InitAnalyzer(window)
    /\ NoPipeline
    /\ NoExtBut({"hist"})
    /\ call_log = <<>>

\* await analyzer.analyze(query), the event time not earlier than any before
OrderedCall ==
    /\ ncalls < MaxOrdered
    /\ \E query \in VolumeQueries :
          /\ ncalls = 0 \/ ResolveTime(query, now) >= t_max
          /\ VolumeStep(query)
          /\ call_log' = Append(call_log, [user_id |-> ResolveUser(query),
                                           timestamp |-> ResolveTime(query, now)])
    /\ UNCHANGED <<now, pipeVars>>
    /\ Ext({"hist"})

OrderedTick == Tick(MaxTime)

NextOrdered == OrderedCall \/ OrderedTick

SpecOrdered == InitOrdered /\ [][NextOrdered]_vars

----------------------------------------------------------------------------
(* Two detectors side by side: the first is given the events of user1 mixed *)
(* with events of other users, the second the same events of user1 alone.  *)
(* Any two sequences with the same events of user1 can be compared through *)
(* the second detector.                                                    *)

\* the events of user1: the event time is the wall clock
OwnQueries ==
    {Query(SampleSql, Some(QueryMetadata(t, Some("user1")))) : t \in {None, Some(now)}}

\* the events of other users: any event time
OtherQueries ==
    {Query(SampleSql, Some(QueryMetadata(Some(t), Some("user2")))) : t \in Times}

InitPair ==
    /\ \E window \in BurstWindows : InitAnalyzer(window)
    /\ NoPipeline
    /\ NoExtBut({"pair"})
    /\ ref_queries = <<>>
    /\ ref_result = None
    /\ own_events = 0
    /\ other_events = 0

\* an event of user1 is analysed by both detectors
OwnCall ==
    /\ own_events < MaxOwn
    /\ \E query \in OwnQueries :
          LET r == VolumeAnalyze(ref_queries, window_seconds, query, now)
          IN  /\ VolumeStep(query)
              /\ ref_queries' = r.queries
              /\ ref_result' = Some(r.result)
    /\ own_events' = own_events + 1
    /\ UNCHANGED <<other_events, now, pipeVars>>
    /\ Ext({"pair"})

\* an event of another user is analysed by the first detector only
OtherCall ==
    /\ other_events < MaxOthers
    /\ \E query \in OtherQueries : VolumeStep(query)
    /\ other_events' = other_events + 1
    /\ UNCHANGED <<ref_queries, ref_result, own_events, now, pipeVars>>
    /\ Ext({"pair"})

PairTick == Tick(MaxClock)

NextPair == OwnCall \/ OtherCall \/ PairTick

SpecPair == InitPair /\ [][NextPair]_vars

----------------------------------------------------------------------------
(* AnalyzerRegistry.analyze_all called directly, as the integration tests  *)
(* do, on two registries: one holds the pattern detectors only, the other  *)
(* the pattern detectors and the volume detector.                          *)

\* a registry that holds the volume detector as well
VolumeRegistry == <<"sql_injection", "data_exfiltration", "volume_anomaly">>

\* a registry that holds only the pattern detectors
PatternRegistry == <<"sql_injection", "data_exfiltration">>

\* analyzer.analyze(query) of the detector with the given name; q is the map
\* of the volume detector before the call
AnalyzeBy(name, q, window, query, wall) ==
    IF name = "sql_injection" THEN InjectionAnalyze(query)
    ELSE IF name = "data_exfiltration" THEN ExfiltrationAnalyze(query)
    ELSE VolumeAnalyze(q, window, query, wall).result

\* analyze_all, lines 19-24: the results of the first k detectors that are
\* not None, in registration order
RECURSIVE AnalyzeAll(_, _, _, _, _, _)
AnalyzeAll(registered, k, q, window, query, wall) ==
    IF k = 0 THEN <<>>
    ELSE Collect(AnalyzeAll(registered, k - 1, q, window, query, wall),
                 AnalyzeBy(registered[k], q, window, query, wall))

InitTwice ==
    /\ InitAnalyzer(DefaultWindow)
    /\ NoPipeline
    /\ NoExtBut({"twice"})
    /\ first_findings = <<>>
    /\ twice_last = None

\* findings = await registry.analyze_all(query), on both registries
AnalyzeAllCall ==
    /\ ncalls < MaxTwice
    /\ \E query \in PipelineQueries :
          LET pattern == AnalyzeAll(PatternRegistry, Len(PatternRegistry), queries,
                                    window_seconds, query, now)
              volume == AnalyzeAll(VolumeRegistry, Len(VolumeRegistry), queries,
                                   window_seconds, query, now)
              found == [pattern |-> pattern, volume |-> volume]
          IN  /\ VolumeStep(query)
              /\ twice_last' = Some([query |-> query, findings |-> found,
                                     repeated |-> query \in DOMAIN first_findings])
              /\ first_findings' =
                    IF query \in DOMAIN first_findings THEN first_findings
                    ELSE [x \in DOMAIN first_findings \cup {query} |->
                             IF x = query THEN found ELSE first_findings[x]]
    /\ UNCHANGED <<now, pipeVars>>
    /\ Ext({"twice"})

NextTwice == AnalyzeAllCall

SpecTwice == InitTwice /\ [][NextTwice]_vars

----------------------------------------------------------------------------
(* QueryPipeline.run on a registry that is already filled, followed to its *)
(* end.                                                                    *)

\* the registries that run is started with
RunRegistries == {<<>>, PatternRegistry, VolumeRegistry}

\* ManualInput(queries), a filled registry, the sinks, and run() called
InitRun ==
    /\ InitAnalyzer(DefaultWindow)
    /\ input_queries \in SeqsUpTo(PipelineQueries, MaxQueries)
    /\ input_index = 0
    /\ analyzers \in RunRegistries
    /\ outputs \in SeqsUpTo(SinkNames, MaxOutputs)
    /\ delivered = [i \in DOMAIN outputs |-> <<>>]
    /\ pc = "next"
    /\ cur_query = None
    /\ cur_findings = <<>>
    /\ ai = 1
    /\ cur_alert = None
    /\ oi = 1
    /\ events = <<>>
    /\ NoExt

NextRun ==
    \/ Anext
    \/ AnalyzeOne
    \/ AnalyzeReturn
    \/ SendBegin
    \/ SendReturn
    \/ SendRaise

\* the event loop keeps running the coroutine of run: a step that can be
\* taken is taken
SpecRun == InitRun /\ [][NextRun]_vars /\ WF_vars(NextRun)

----------------------------------------------------------------------------
(* The input sources iterated on their own, past their end: ManualInput    *)
(* (input/manual.py), LogFileInput built from lines                        *)
(* (input/logfile/adapter.py) and SupabaseLogInput                         *)
(* (input/supabase/adapter.py), built with a client or from rows, with its *)
(* reset() and refresh().  An exception of a call leaves the object as the *)
(* call left it, and the next call finds it so.                            *)

\* _parse_rows, lines 83-95, on the outcomes of parse_log_row for the rows:
\* the first exception ends the call, a row without an entry is skipped
CollectQueries(outcomes) ==
    IF \E i \in DOMAIN outcomes : outcomes[i].raised # ""
    THEN LET i == CHOOSE k \in DOMAIN outcomes :
                      /\ outcomes[k].raised # ""
                      /\ \A j \in 1..(k - 1) : outcomes[j].raised = ""
         IN  Raised(outcomes[i].raised)
    ELSE LET kept == SelectSeq(outcomes, LAMBDA o : o.value # None)
         IN  Returned([i \in DOMAIN kept |-> QueryOf(kept[i].value[1])])

\* SupabaseLogInput._parse_rows: the queries of the rows that the parser
\* accepts, or the exception of parse_log_row
parse_rows(log_rows) ==
    CollectQueries([i \in DOMAIN log_rows |-> parse_log_row(log_rows[i])])

\* faulty variant: _fetch_logs does not record that it has fetched
MarkFetchedNever == FALSE

\* _fetch_logs, line 78: self._fetched = True
MarkFetched == TRUE

\* faulty variant: at the end the index goes back to the start
SupabaseNextRewinding(qs, index) ==
    IF index >= Len(qs) THEN [stop |-> TRUE, pos |-> 0, index |-> 0]
    ELSE [stop |-> FALSE, pos |-> index + 1, index |-> index + 1]

\* SupabaseLogInput.__anext__, lines 64-69: StopAsyncIteration, or the
\* position of the query yielded and the new _index
SupabaseNext(qs, index) ==
    IF index >= Len(qs) THEN [stop |-> TRUE, pos |-> 0, index |-> index]
    ELSE [stop |-> FALSE, pos |-> index + 1, index |-> index + 1]

\* LogFileInput.__anext__, lines 44-60, on the outcomes of parse_line for
\* the lines: _index moves past each line before the line is parsed; the
\* loop ends with the query of a line, with the exception of parse_line, or
\* after the last line with StopAsyncIteration
LogFileLoop(outcomes, index) ==
    LET stops == {i \in (index + 1)..Len(outcomes) :
                     outcomes[i].raised # "" \/ outcomes[i].value # None}
    IN  IF stops = {}
        THEN [outcome |-> "stop", query |-> None,
              index |-> IF index < Len(outcomes) THEN Len(outcomes) ELSE index]
        ELSE LET i == CHOOSE k \in stops : \A j \in stops : k <= j
             IN  IF outcomes[i].raised # ""
                 THEN [outcome |-> "error", query |-> None, index |-> i]
                 ELSE [outcome |-> "yield", query |-> Some(QueryOf(outcomes[i].value[1])),
                       index |-> i]

LogFileNext(lines, index) ==
    LogFileLoop([i \in DOMAIN lines |-> parse_line(lines[i])], index)

\* _fetch_logs, lines 72-77: the rows that query_logs returns are parsed
FetchLogs(fetched) ==
    IF fetched.raised # "" THEN fetched ELSE parse_rows(fetched.value)

\* what query_logs gives to _fetch_logs: rows, or an exception of the client
FetchOutcomes ==
    {Returned(rows) : rows \in SeqsUpTo(AdapterRows, MaxItems)} \cup {Raised("HTTPStatusError")}

InitSource ==
    /\ InitAnalyzer(DefaultWindow)
    /\ NoPipeline
    /\ NoExtBut({"src"})
    /\ src_kind \in {"manual", "logfile", "supabase", "supabase_rows"}
    /\ src_items \in CASE src_kind = "manual" -> SeqsUpTo(PipelineQueries, MaxItems)
                       [] src_kind = "logfile" -> SeqsUpTo(AdapterLines, MaxItems)
                       [] src_kind = "supabase_rows" -> SeqsUpTo(AdapterRows, MaxItems)
                       [] OTHER -> {<<>>}
    /\ src_queries = <<>>
    /\ src_index = 0
    /\ src_fetched = FALSE
    /\ src_pc = IF src_kind = "supabase_rows" THEN "new" ELSE "idle"
    /\ src_last = [op |-> "none", outcome |-> "none"]
    /\ src_fetches = 0
    /\ src_out = <<>>
    /\ src_prev = None
    /\ src_stopped = FALSE
    /\ src_ops = 0

SourceFrame ==
    /\ UNCHANGED <<src_kind, src_items, volVars, now, pipeVars>>
    /\ Ext({"src"})

\* the call is recorded with its outcome and, if there is one, its query
SourceAnswer(outcome, query) ==
    /\ src_last' = [op |-> "__anext__", outcome |-> outcome]
    /\ src_out' = IF outcome = "yield" THEN Append(src_out, query[1]) ELSE src_out
    /\ src_stopped' = (src_stopped \/ outcome = "stop")
    /\ src_ops' = src_ops + 1
    /\ UNCHANGED <<src_pc, src_prev>>

\* SupabaseLogInput.from_log_rows, lines 49-55: there is no client, the
\* rows count as fetched, and the construction fails when parse_log_row
\* raises
SourceFromLogRows ==
    /\ src_kind = "supabase_rows"
    /\ src_pc = "new"
    /\ \E parsed \in {parse_rows(src_items)} :
           IF parsed.raised # ""
           THEN src_pc' = "failed" /\ UNCHANGED <<src_queries, src_fetched>>
           ELSE /\ src_pc' = "idle"
                /\ src_queries' = parsed.value
                /\ src_fetched' = TRUE
    /\ UNCHANGED <<src_index, src_last, src_fetches, src_out, src_prev, src_stopped, src_ops>>
    /\ SourceFrame

\* ManualInput.__anext__
ManualSourceAnext ==
    /\ src_kind = "manual"
    /\ src_ops < MaxOps
    /\ LET next == ManualNext(src_items, src_index)
       IN  /\ src_index' = next.index
           /\ IF next.stop THEN SourceAnswer("stop", None)
              ELSE SourceAnswer("yield", Some(src_items[next.pos]))
    /\ UNCHANGED <<src_queries, src_fetched, src_fetches>>
    /\ SourceFrame

\* LogFileInput.__anext__
LogFileSourceAnext ==
    /\ src_kind = "logfile"
    /\ src_ops < MaxOps
    /\ \E next \in {LogFileNext(src_items, src_index)} :
           /\ src_index' = next.index
           /\ SourceAnswer(next.outcome, next.query)
    /\ UNCHANGED <<src_queries, src_fetched, src_fetches>>
    /\ SourceFrame

\* SupabaseLogInput.__anext__ when _fetched is set
SupabaseSourceAnext ==
    /\ src_kind \in {"supabase", "supabase_rows"}
    /\ src_pc = "idle"
    /\ src_ops < MaxOps
    /\ src_fetched
    /\ LET next == SupabaseNext(src_queries, src_index)
       IN  /\ src_index' = next.index
           /\ IF next.stop THEN SourceAnswer("stop", None)
              ELSE SourceAnswer("yield", Some(src_queries[next.pos]))
    /\ UNCHANGED <<src_queries, src_fetched, src_fetches>>
    /\ SourceFrame

\* SupabaseLogInput.__anext__ when _fetched is not set: _fetch_logs is
\* awaited first, and its exception is the exception of the call.  Without
\* a client the call of query_logs on None raises AttributeError
SupabaseSourceFetchAnext ==
    /\ src_kind \in {"supabase", "supabase_rows"}
    /\ src_pc = "idle"
    /\ src_ops < MaxOps
    /\ ~src_fetched
    /\ IF src_kind = "supabase_rows"
       THEN /\ SourceAnswer("error", None)
            /\ UNCHANGED <<src_queries, src_fetched, src_index, src_fetches>>
       ELSE /\ src_fetches' = src_fetches + 1
            /\ \E parsed \in {FetchLogs(fetched) : fetched \in FetchOutcomes} :
                    IF parsed.raised # ""
                    THEN /\ SourceAnswer("error", None)
                         /\ UNCHANGED <<src_queries, src_fetched, src_index>>
                    ELSE LET next == SupabaseNext(parsed.value, src_index)
                         IN  /\ src_queries' = parsed.value
                             /\ src_fetched' = MarkFetched
                             /\ src_index' = next.index
                             /\ IF next.stop THEN SourceAnswer("stop", None)
                                ELSE SourceAnswer("yield", Some(parsed.value[next.pos]))
    /\ SourceFrame

\* SupabaseLogInput.reset
SourceReset ==
    /\ src_kind \in {"supabase", "supabase_rows"}
    /\ src_pc = "idle"
    /\ src_ops < MaxOps
    /\ src_index' = 0
    /\ src_last' = [op |-> "reset", outcome |-> "done"]
    /\ src_prev' = IF src_stopped THEN Some(src_out) ELSE None
    /\ src_out' = <<>>
    /\ src_stopped' = FALSE
    /\ src_ops' = src_ops + 1
    /\ UNCHANGED <<src_queries, src_fetched, src_pc, src_fetches>>
    /\ SourceFrame

\* SupabaseLogInput.refresh, lines 105-107, up to the call of _fetch_logs
RefreshBegin ==
    /\ src_kind \in {"supabase", "supabase_rows"}
    /\ src_pc = "idle"
    /\ src_ops < MaxOps
    /\ src_fetched' = FALSE
    /\ src_index' = 0
    /\ src_queries' = <<>>
    /\ src_pc' = "refreshing"
    /\ src_last' = [op |-> "refresh", outcome |-> "pending"]
    /\ src_prev' = None
    /\ src_out' = <<>>
    /\ src_stopped' = FALSE
    /\ src_ops' = src_ops + 1
    /\ UNCHANGED src_fetches
    /\ SourceFrame

\* SupabaseLogInput.refresh, line 108: await self._fetch_logs().  An
\* instance built by from_log_rows has no client, and the call of
\* query_logs on None raises AttributeError
RefreshFetch ==
    /\ src_pc = "refreshing"
    /\ src_pc' = "idle"
    /\ IF src_kind = "supabase_rows"
       THEN /\ src_last' = [op |-> "refresh", outcome |-> "error"]
            /\ UNCHANGED <<src_queries, src_fetched, src_fetches>>
       ELSE /\ src_fetches' = src_fetches + 1
            /\ \E parsed \in {FetchLogs(fetched) : fetched \in FetchOutcomes} :
                    IF parsed.raised # ""
                    THEN /\ src_last' = [op |-> "refresh", outcome |-> "error"]
                         /\ UNCHANGED <<src_queries, src_fetched>>
                    ELSE /\ src_last' = [op |-> "refresh", outcome |-> "done"]
                         /\ src_queries' = parsed.value
                         /\ src_fetched' = MarkFetched
    /\ UNCHANGED <<src_index, src_out, src_prev, src_stopped, src_ops>>
    /\ SourceFrame

NextSource ==
    \/ SourceFromLogRows
    \/ ManualSourceAnext
    \/ LogFileSourceAnext
    \/ SupabaseSourceAnext
    \/ SupabaseSourceFetchAnext
    \/ SourceReset
    \/ RefreshBegin
    \/ RefreshFetch

SpecSource == InitSource /\ [][NextSource]_vars

----------------------------------------------------------------------------
(* Pipelines that share one VolumeAnomalyAnalyzer, as tasks of one asyncio *)
(* event loop.  The loop runs one task at a time, and a running task gives  *)
(* the loop back only where it awaits: QueryPipeline.run awaits the source, *)
(* analyze_all and the sinks (core/pipeline.py, lines 21-26), analyze_all   *)
(* awaits analyze (registry.py, line 21), and the body of analyze           *)
(* (volume_anomaly.py, lines 31-66) awaits nothing.  Every query is of      *)
(* user1 and carries the same timestamp.                                    *)

Tasks == 1..MaxTasks

SharedUser == "user1"
\* the timestamp of every query: a time of the range of the model
SharedTimestamp == MaxTime

\* faulty variant: analyze could be suspended after any of its statements
SuspendsAnywhere(position) == TRUE

\* where a task can be suspended: at the awaits of run and analyze_all, not
\* inside analyze
SuspendsAt(position) == position = "outside"

InitLoop ==
    /\ \E window \in 1..MaxWindow : InitAnalyzer(window)
    /\ NoPipeline
    /\ NoExtBut({"loop"})
    /\ loop_running = 0
    /\ task_pc = [p \in Tasks |-> "outside"]
    /\ task_left \in [Tasks -> 1..MaxPerTask]
    /\ observed = <<>>

LoopFrame ==
    /\ UNCHANGED <<window_seconds, ncalls, last, t_min, t_max, seen_keys, now, pipeVars>>
    /\ Ext({"loop"})

\* the event loop runs a task that has not finished
Resume(p) ==
    /\ loop_running = 0
    /\ task_left[p] > 0 \/ task_pc[p] # "outside"
    /\ loop_running' = p
    /\ UNCHANGED <<queries, task_pc, task_left, observed>>
    /\ LoopFrame

\* the running task awaits and the loop takes over
Suspend(p) ==
    /\ loop_running = p
    /\ SuspendsAt(task_pc[p])
    /\ loop_running' = 0
    /\ UNCHANGED <<queries, task_pc, task_left, observed>>
    /\ LoopFrame

\* analyze, line 42: self._cleanup_expired(timestamp)
PruneStep(p) ==
    /\ loop_running = p
    /\ task_pc[p] = "outside"
    /\ task_left[p] > 0
    /\ queries' = cleanup_expired(queries, SharedTimestamp, window_seconds)
    /\ task_pc' = [task_pc EXCEPT ![p] = "pruned"]
    /\ UNCHANGED <<loop_running, task_left, observed>>
    /\ LoopFrame

\* analyze, line 43: self._queries[user_id].append(timestamp)
AppendStep(p) ==
    /\ loop_running = p
    /\ task_pc[p] = "pruned"
    /\ queries' = AppendFor(queries, SharedUser, SharedTimestamp)
    /\ task_pc' = [task_pc EXCEPT ![p] = "appended"]
    /\ UNCHANGED <<loop_running, task_left, observed>>
    /\ LoopFrame

\* analyze, line 44 to its return: count = len(self._queries[user_id])
CountStep(p) ==
    /\ loop_running = p
    /\ task_pc[p] = "appended"
    /\ observed' = Append(observed, Len(queries[SharedUser]))
    /\ task_pc' = [task_pc EXCEPT ![p] = "outside"]
    /\ task_left' = [task_left EXCEPT ![p] = @ - 1]
    /\ UNCHANGED <<loop_running, queries>>
    /\ LoopFrame

NextLoop ==
    \E p \in Tasks : Resume(p) \/ Suspend(p) \/ PruneStep(p) \/ AppendStep(p) \/ CountStep(p)

SpecLoop == InitLoop /\ [][NextLoop]_vars

----------------------------------------------------------------------------
(* Properties of the registry and the pipeline *)

RECURSIVE IsSubseq(_, _)
\* a is b with some elements left out
IsSubseq(a, b) ==
    IF a = <<>> THEN TRUE
    ELSE IF b = <<>> THEN FALSE
    ELSE IF Head(a) = Head(b) THEN IsSubseq(Tail(a), Tail(b))
    ELSE IsSubseq(a, Tail(b))

\* the positions of the events of one call, and of one call about one query
At(op) == {p \in DOMAIN events : events[p].op = op}
AtQuery(op, qi) == {p \in At(op) : events[p].qi = qi}

\* the events before position p, nearest first, are exactly the sequence es
Preceded(p, es) ==
    /\ p > Len(es)
    /\ \A k \in 1..Len(es) : events[p - Len(es) + k - 1] = es[k]

RECURSIVE NonAbsent(_)
\* the values of the results that are not None, in order
NonAbsent(results) ==
    IF results = <<>> THEN <<>>
    ELSE results[1] \o NonAbsent(Tail(results))

\* the processing of the query at source position qi has ended normally:
\* the source was asked for the next query after the event at position p
NextRequestedAfter(p) ==
    \E r \in At("anext") \cup At("stop") : r > p

\* C1: an alert is built and sent exactly for the queries for which the
\* registry returned at least one finding.  With no finding there is no
\* alert and no send; with findings there is exactly one alert, holding the
\* query and the findings as returned (in registry order), and it is what
\* every sink is sent, once.
C1_AlertIffFindings ==
    /\ \A p \in At("alert") \cup At("send") : AtQuery("findings", events[p].qi) # {}
    /\ \A p \in At("findings") :
          LET f == events[p]
              built == AtQuery("alert", f.qi)
              sends == AtQuery("send", f.qi)
          IN  IF f.val = <<>>
              THEN built = {} /\ sends = {}
              ELSE /\ Cardinality(built) = 1
                   /\ \A r \in built :
                         /\ events[r].val[1].query = input_queries[f.qi]
                         /\ events[r].val[1].findings = f.val
                         /\ \A q \in sends : events[q].val = events[r].val
                   /\ IsSubseq([k \in DOMAIN f.val |-> f.val[k].analyzer_name], analyzers)
                   /\ \A i \in DOMAIN outputs :
                         LET n == Cardinality({q \in sends : events[q].idx = i})
                         IN  n <= 1 /\ (NextRequestedAfter(p) => n = 1)

\* the run ended normally after a query without findings and a query whose
\* alert, with two findings, went to two sinks
C1_Witness ==
    /\ pc = "done"
    /\ Len(outputs) = 2
    /\ \E p \in At("findings") : events[p].val = <<>>
    /\ \E p \in At("findings") :
          /\ Len(events[p].val) = 2
          /\ Cardinality(AtQuery("send", events[p].qi)) = 2

\* the completed sends to the sink at position i, in order
SentTo(i) == SelectSeq(events, LAMBDA e : e.op = "sent" /\ e.idx = i)

\* C2: every sink receives the alerts in the order of their queries in the
\* source: the source positions of the alerts a sink has taken increase, and
\* the sink holds exactly these alerts in that order.
C2_SinkOrder ==
    \A i \in DOMAIN outputs :
        LET sent == SentTo(i)
        IN  /\ \A k \in 1..(Len(sent) - 1) : sent[k].qi < sent[k + 1].qi
            /\ Len(delivered[i]) = Len(sent)
            /\ \A k \in DOMAIN sent :
                  delivered[i][k].query = input_queries[sent[k].qi]

C2_Witness ==
    \E i \in DOMAIN outputs :
        /\ Len(delivered[i]) = 2
        /\ delivered[i][1].query # delivered[i][2].query

\* C3: for each alert the sinks are called one at a time in registration
\* order, a send ending before the next one starts, all with the same alert;
\* and the source is asked for the next query only when the detectors and the
\* delivery to every sink are finished for the current one.
C3_SequentialDelivery ==
    /\ \A p \in At("send") :
          LET e == events[p]
          IN  /\ e.idx \in DOMAIN outputs
              /\ IF e.idx = 1
                 THEN Preceded(p, <<Event("alert", e.qi, 0, e.val)>>)
                 ELSE Preceded(p, <<Event("send", e.qi, e.idx - 1, e.val),
                                    Event("sent", e.qi, e.idx - 1, None)>>)
    /\ \A p \in At("sent") \cup At("raise") :
          /\ p > 1
          /\ events[p - 1].op = "send"
          /\ events[p - 1].qi = events[p].qi
          /\ events[p - 1].idx = events[p].idx
    /\ \A p \in At("sent") :
          LET e == events[p]
          IN  /\ delivered[e.idx] # <<>>
              /\ \E k \in DOMAIN delivered[e.idx] :
                    Some(delivered[e.idx][k]) = events[p - 1].val
    /\ \A p \in (At("anext") \cup At("stop")) \ {1} :
          LET before == events[p - 1]
          IN  \/ before.op = "findings" /\ before.val = <<>>
              \/ before.op = "alert" /\ outputs = <<>>
              \/ before.op = "sent" /\ before.idx = Len(outputs)
    /\ \A p \in At("anext") :
          \A r \in At("analyze") \cup At("findings") :
              events[r].qi = events[p].qi => r > p
    /\ pc = "sending" => events[Len(events)].op = "send"

\* the second of two sinks has taken an alert and the next query was requested
C3_Witness ==
    \E p \in At("anext") \cup At("stop") :
        /\ p > 1
        /\ events[p - 1].op = "sent"
        /\ events[p - 1].idx = 2

\* C4: a send that fails ends the run: it is the last call the pipeline
\* makes.  The sinks after the failing one are not sent that alert, the
\* failing sink has not taken it and is sent it only once, no further query is
\* drawn from the source, and the run has ended with the failure.
C4_SinkFailureHalts ==
    /\ \A p \in At("raise") :
          LET e == events[p]
          IN  /\ p = Len(events)
              /\ pc = "failed"
              /\ Cardinality({q \in AtQuery("send", e.qi) : events[q].idx = e.idx}) = 1
              /\ \A q \in AtQuery("send", e.qi) : events[q].idx <= e.idx
              /\ \A q \in AtQuery("sent", e.qi) : events[q].idx < e.idx
              /\ \A q \in At("anext") : events[q].qi <= e.qi
              /\ input_index = e.qi
              /\ \A i \in DOMAIN outputs :
                    Len(delivered[i]) = Len(SentTo(i))
    /\ pc = "failed" => At("raise") # {}

\* the first of two sinks failed while the source still held a query
C4_Witness ==
    /\ pc = "failed"
    /\ Len(outputs) = 2
    /\ events[Len(events)] = Event("raise", 1, 1, None)
    /\ input_index < Len(input_queries)

\* C5: analyze_all calls every registered detector once for the query, in
\* registration order and whatever the earlier results, and returns the
\* results that are not None in the same order (the empty list when no
\* detector is registered).
C5_AnalyzeAll ==
    /\ \A p \in At("findings") :
          LET f == events[p]
              n == Len(analyzers)
              calls == [k \in 1..n |-> events[p - n + k - 1]]
          IN  /\ p > n + 1
              /\ events[p - n - 1].op = "anext"
              /\ events[p - n - 1].qi = f.qi
              /\ \A k \in 1..n :
                    /\ calls[k].op = "analyze"
                    /\ calls[k].qi = f.qi
                    /\ calls[k].idx = k
                    /\ analyzers[k] = "sql_injection" =>
                          calls[k].val = InjectionAnalyze(input_queries[f.qi])
                    /\ analyzers[k] = "data_exfiltration" =>
                          calls[k].val = ExfiltrationAnalyze(input_queries[f.qi])
              /\ Cardinality(AtQuery("analyze", f.qi)) = n
              /\ f.val = NonAbsent([k \in 1..n |-> calls[k].val])
    /\ \A p \in At("analyze") :
          /\ events[p].idx \in DOMAIN analyzers
          /\ p > 1
          /\ IF events[p].idx = 1
             THEN events[p - 1].op = "anext"
             ELSE events[p - 1].op = "analyze" /\ events[p - 1].idx = events[p].idx - 1
          /\ events[p - 1].qi = events[p].qi

\* a registry of two detectors returned two findings, and another time
\* dropped the None of the first detector and kept the finding of the second
C5_Witness ==
    /\ Len(analyzers) = 2
    /\ \E p \in At("findings") : Len(events[p].val) = 2
    /\ \E p \in At("findings") :
          /\ Len(events[p].val) = 1
          /\ events[p - 2].val = None
          /\ events[p - 1].val # None

----------------------------------------------------------------------------
(* Properties of the volume-anomaly detector *)

AllKeys == Users \cup {ANONYMOUS}

\* the list stored for a key; a missing key holds no timestamp
Entry(q, u) == IF u \in DOMAIN q THEN q[u] ELSE <<>>

\* the step is one analyze call
IsAnalyzeStep == ncalls' = ncalls + 1

\* C6: the count obtained after pruning and appending (the length of the
\* key's list after the call) decides the severity with exclusive boundaries:
\* no finding up to 20, LOW for 21..50, MEDIUM for 51..100, HIGH from 101.
C6_ThresholdBands ==
    last.called =>
        LET count == Len(queries[last.user_id])
        IN  /\ count <= 20 => last.result = None
            /\ (21 <= count /\ count <= 50) =>
                  last.result # None /\ last.result[1].severity = LOW
            /\ (51 <= count /\ count <= 100) =>
                  last.result # None /\ last.result[1].severity = MEDIUM
            /\ count >= 101 =>
                  last.result # None /\ last.result[1].severity = HIGH

C6_Witness ==
    /\ last.called
    /\ Len(queries[last.user_id]) = 101
    /\ last.result # None
    /\ last.result[1].severity = HIGH

\* C7: when every call so far was for one user key and all the event times
\* lie inside one window (largest - smallest < window), the k-th call counts
\* k; calls 1..20 return no finding and the 21st returns a LOW finding whose
\* details are query_count = 21, the resolved key and the window size.
C7_KthCallCountsK ==
    (last.called /\ Cardinality(seen_keys) = 1 /\ t_max - t_min < window_seconds) =>
        /\ last.count = ncalls
        /\ ncalls <= 20 => last.result = None
        /\ ncalls = 21 =>
              /\ last.result # None
              /\ last.result[1].analyzer_name = "volume_anomaly"
              /\ last.result[1].severity = LOW
              /\ last.result[1].details =
                    [query_count |-> 21, window_seconds |-> window_seconds,
                     user_id |-> last.user_id]

C7_Witness ==
    /\ last.called
    /\ ncalls = 21
    /\ t_min < t_max
    /\ t_max - t_min < window_seconds
    /\ last.result # None
    /\ last.result[1].details.query_count = 21

\* C8: an analyze call for key A leaves the stored list of every other key
\* as it was.
C8_OtherKeysUntouched ==
    [][IsAnalyzeStep =>
          \A u \in AllKeys \ {last'.user_id} : Entry(queries', u) = Entry(queries, u)]_vars

\* C9: after an analyze call with event time t for key k no timestamp older
\* than t - window is stored for k, the count of the call is the length of
\* that list, and the list is the new event time after timestamps that were
\* already stored and are not older than t - window: a timestamp older than
\* the window is not counted by this call and, once dropped, by no later one.
C9_ExpiredNeverCounted ==
    [][IsAnalyzeStep =>
          LET k == last'.user_id
              cutoff == last'.timestamp - window_seconds
              stored == queries'[k]
              notOlder == SelectSeq(Entry(queries, k), LAMBDA ts : ts >= cutoff)
          IN  /\ \A i \in DOMAIN stored : stored[i] >= cutoff
              /\ last'.count = Len(stored)
              /\ stored[Len(stored)] = last'.timestamp
              /\ IsSubseq(SubSeq(stored, 1, Len(stored) - 1), notOlder)]_vars

\* an earlier event of the same key is older than the window of the last
\* call, and the last call did not count it
C9_Witness ==
    /\ last.called
    /\ seen_keys = {last.user_id}
    /\ t_min < last.timestamp - window_seconds
    /\ last.count < ncalls

\* C10: pruning removes only the timestamps older than t - window: a stored
\* timestamp equal to t - window is kept and counted by the call.
C10_CutoffTimestampKept ==
    [][IsAnalyzeStep =>
          LET k == last'.user_id
              cutoff == last'.timestamp - window_seconds
              notOlder == SelectSeq(Entry(queries, k), LAMBDA ts : ts >= cutoff)
          IN  /\ queries'[k] = notOlder \o <<last'.timestamp>>
              /\ last'.count = Len(notOlder) + 1]_vars

\* C11: a query without metadata and a query whose metadata has no user_id
\* are counted under the same key, the sentinel: in any mix of such queries
\* whose event times lie inside one window the k-th call counts k, the map
\* holds the sentinel key alone, and the 21st call returns a LOW finding of
\* 21 queries whose user key is the sentinel.
C11_AnonymousBucket ==
    (last.called /\ t_max - t_min < window_seconds) =>
        /\ last.user_id = ANONYMOUS
        /\ DOMAIN queries = {ANONYMOUS}
        /\ last.count = ncalls
        /\ ncalls = 21 =>
              /\ last.result # None
              /\ last.result[1].severity = LOW
              /\ last.result[1].details.query_count = 21
              /\ last.result[1].details.user_id = ANONYMOUS

\* the 21st call of a mix of both shapes inside one window
C11_Witness ==
    /\ ncalls = 21
    /\ shapes = {"no_metadata", "no_user_id"}
    /\ t_max - t_min < window_seconds
    /\ last.result # None
    /\ last.result[1].details.user_id = ANONYMOUS

----------------------------------------------------------------------------
(* Properties of Alert *)

\* C12: the severity read from an alert is LOW when the alert has no
\* findings; otherwise it is the severity of one of its findings and no
\* finding has a higher one (LOW < MEDIUM < HIGH).  An alert with a MEDIUM
\* injection finding and a HIGH exfiltration finding reads HIGH.
C12_AlertSeverityIsMax ==
    alert_severity # None =>
        LET fs == alert[1].findings
            s == alert_severity[1]
        IN  /\ fs = <<>> => s = LOW
            /\ fs # <<>> =>
                  /\ \E i \in DOMAIN fs : fs[i].severity = s
                  /\ \A i \in DOMAIN fs : fs[i].severity <= s
            /\ (\E i, j \in DOMAIN fs : fs[i].severity = MEDIUM /\ fs[j].severity = HIGH)
                  => s = HIGH

\* HIGH was read from an alert of a MEDIUM injection finding followed by a
\* HIGH exfiltration finding, in that order
C12_Witness ==
    /\ alert_severity = Some(HIGH)
    /\ Len(alert[1].findings) = 2
    /\ alert[1].findings[1].analyzer_name = "sql_injection"
    /\ alert[1].findings[1].severity = MEDIUM
    /\ alert[1].findings[2].analyzer_name = "data_exfiltration"
    /\ alert[1].findings[2].severity = HIGH

----------------------------------------------------------------------------
(* Properties of the pattern detectors *)

\* the rules of a tier of the table of a detector
Table(table, severity) ==
    IF table = "injection" THEN InjectionPatterns(severity)
    ELSE ExfiltrationPatterns(severity)

\* the rules of a table in the order the detector tries them
AllRules(table) == Table(table, HIGH) \o Table(table, MEDIUM) \o Table(table, LOW)

\* the tier of the rule at position k of AllRules
TierOfRule(table, k) ==
    IF k <= Len(Table(table, HIGH)) THEN HIGH
    ELSE IF k <= Len(Table(table, HIGH)) + Len(Table(table, MEDIUM)) THEN MEDIUM
    ELSE LOW

\* the positions in AllRules of the rules that match the text
Matched(table, text) ==
    {k \in 1..Len(AllRules(table)) : Search(AllRules(table)[k].pat, text)}

\* some rule of the tier matches the text
TierHit(table, severity, text) ==
    \E k \in Matched(table, text) : TierOfRule(table, k) = severity

\* the LIMIT and OFFSET checks of DataExfiltrationAnalyzer.analyze fire
LimitChecked(text) ==
    LET found == FirstNumberAfter("LIMIT", text)
    IN  found # None /\ IntOf(found[1]) > LargeLimit
OffsetChecked(text) ==
    LET found == FirstNumberAfter("OFFSET", text)
    IN  found # None /\ IntOf(found[1]) > 0

\* the severity that C13 states for a result, given which tiers matched
MaxTierIs(result, high, medium, low) ==
    /\ result = None <=> ~(high \/ medium \/ low)
    /\ result # None =>
          result[1].severity = IF high THEN HIGH ELSE IF medium THEN MEDIUM ELSE LOW

\* C13: the severity of a pattern detector's finding is the highest tier
\* among the rules that match: HIGH when a HIGH rule matches whatever else
\* matches, MEDIUM when only MEDIUM and LOW rules match, LOW when only LOW
\* rules (for exfiltration: the LIMIT and OFFSET checks) match; and the
\* result is None exactly when nothing matches.
C13_SeverityIsMaxTier ==
    /\ inj_result # <<>> =>
          MaxTierIs(inj_result[1],
                    TierHit("injection", HIGH, det_sql),
                    TierHit("injection", MEDIUM, det_sql),
                    TierHit("injection", LOW, det_sql))
    /\ exf_result # <<>> =>
          MaxTierIs(exf_result[1],
                    TierHit("exfiltration", HIGH, det_sql),
                    TierHit("exfiltration", MEDIUM, det_sql),
                    LimitChecked(det_sql) \/ OffsetChecked(det_sql))

\* a HIGH rule and a LOW rule of the injection table match and the finding
\* is HIGH; a MEDIUM rule and the LIMIT check of exfiltration match, no HIGH
\* rule does, and the finding is MEDIUM
C13_Witness ==
    /\ inj_result # <<>> /\ exf_result # <<>>
    /\ TierHit("injection", HIGH, det_sql)
    /\ TierHit("injection", LOW, det_sql)
    /\ inj_result[1][1].severity = HIGH
    /\ ~TierHit("exfiltration", HIGH, det_sql)
    /\ TierHit("exfiltration", MEDIUM, det_sql)
    /\ LimitChecked(det_sql)
    /\ exf_result[1][1].severity = MEDIUM

\* the entries of patterns that stand for rules of the table are the
\* descriptions of the matched rules, each once, in the order of AllRules
ListsMatchedRules(table, text, patterns) ==
    LET hits == Matched(table, text)
    IN  /\ Len(patterns) >= Cardinality(hits)
        /\ \A i \in 1..Cardinality(hits) :
              \E k \in hits :
                  /\ Cardinality({j \in hits : j < k}) = i - 1
                  /\ patterns[i] = AllRules(table)[k].desc

\* the tier of the first entry of the patterns of a finding
TierOfFirst(table, text) ==
    LET hits == Matched(table, text)
    IN  IF hits = {} THEN LOW
        ELSE TierOfRule(table, CHOOSE k \in hits : \A j \in hits : k <= j)

\* the entries after the first n are the LIMIT entry, if the LIMIT check
\* fired, and then the OFFSET entry, if the OFFSET check fired
EndsWithChecks(text, patterns, n) ==
    LET tail == SubSeq(patterns, n + 1, Len(patterns))
        limit == IF LimitChecked(text) THEN 1 ELSE 0
        offset == IF OffsetChecked(text) THEN 1 ELSE 0
    IN  /\ Len(tail) = limit + offset
        /\ limit = 1 => tail[1][1] = "large LIMIT"
        /\ offset = 1 => tail[Len(tail)][1] = "OFFSET pagination"

\* C14: in a finding of a pattern detector, details.patterns lists the
\* description of every matched rule once, the HIGH rules first, then the
\* MEDIUM ones, then the LOW ones, each tier in declaration order, and for
\* exfiltration the LIMIT entry and then the OFFSET entry last; its length is
\* the number of matches; the message embeds the first entry, and the tier of
\* the first entry is the severity of the finding.
C14_PatternsListing ==
    /\ (inj_result # <<>> /\ inj_result[1] # None) =>
          LET f == inj_result[1][1]
              p == f.details.patterns
          IN  /\ ListsMatchedRules("injection", det_sql, p)
              /\ Len(p) = Cardinality(Matched("injection", det_sql))
              /\ f.message = <<"SQL injection pattern detected", p[1]>>
              /\ f.severity = TierOfFirst("injection", det_sql)
    /\ (exf_result # <<>> /\ exf_result[1] # None) =>
          LET f == exf_result[1][1]
              p == f.details.patterns
          IN  /\ ListsMatchedRules("exfiltration", det_sql, p)
              /\ EndsWithChecks(det_sql, p,
                                Cardinality(Matched("exfiltration", det_sql)))
              /\ f.message = <<"Data exfiltration pattern detected", p[1]>>
              /\ f.severity = TierOfFirst("exfiltration", det_sql)

\* an injection finding of two HIGH rules and a LOW rule, and an
\* exfiltration finding of a MEDIUM rule followed by the LIMIT entry
C14_Witness ==
    /\ inj_result # <<>> /\ inj_result[1] # None
    /\ exf_result # <<>> /\ exf_result[1] # None
    /\ inj_result[1][1].details.patterns =
          << <<"stacked WAITFOR">>, <<"UNION SELECT">>, <<"time-based WAITFOR">> >>
    /\ Len(exf_result[1][1].details.patterns) = 2
    /\ exf_result[1][1].details.patterns[1] = <<"sensitive column: password">>
    /\ exf_result[1][1].details.patterns[2][1] = "large LIMIT"

\* the values of the clauses of the text made of the keyword and an integer
ClauseValues(keyword, text) ==
    {IntOf(text[i + 1].d) : i \in {j \in 1..(Len(text) - 1) :
                                      Fold(text[j]) = W(keyword) /\ text[j + 1].d # <<>>}}

\* the finding has an entry of the kind among its patterns
HasEntry(result, kind) ==
    /\ result # None
    /\ \E i \in DOMAIN result[1].details.patterns :
          result[1].details.patterns[i][1] = kind

\* C15: DataExfiltrationAnalyzer reports a 'large LIMIT' match exactly when
\* some LIMIT clause of the text has a value above 1000, and an 'OFFSET'
\* match exactly when some OFFSET clause has a value above 0, whatever other
\* LIMIT or OFFSET clauses the text has; the matches of the tier rules stay
\* listed, and when no tier rule matches the severity is LOW.
C15_LimitOffsetChecks ==
    exf_result # <<>> =>
        LET r == exf_result[1]
        IN  /\ HasEntry(r, "large LIMIT") <=>
                  \E v \in ClauseValues("LIMIT", det_sql) : v > LargeLimit
            /\ HasEntry(r, "OFFSET pagination") <=>
                  \E v \in ClauseValues("OFFSET", det_sql) : v > 0
            /\ r # None =>
                  /\ ListsMatchedRules("exfiltration", det_sql, r[1].details.patterns)
                  /\ Matched("exfiltration", det_sql) = {} => r[1].severity = LOW

----------------------------------------------------------------------------
(* Properties of the parsers *)

\* the text of an accepted message that follows its seven-field prefix, less
\* the whitespace around it
AfterPrefix(event_message) ==
    LET stripped == Strip(event_message)
    IN  Strip(SubSeq(stripped, CommaAt(stripped, 7) + 1, Len(stripped)))

\* C16: for a message that parse_event_message accepts, with or without
\* whitespace before the AUDIT: token, the statement is the text after the
\* seventh comma of the prefix, commas included; when that text ends with the
\* marker <not logged>, the statement is the text before the marker and the
\* comma in front of it, and parameter is the marker; otherwise parameter is
\* None.
C16_StatementAfterPrefix ==
    (parse_input.kind = "message" /\ parse_outcome # <<>>
        /\ parse_outcome[1].value # None) =>
        LET parsed == parse_outcome[1].value[1]
            text == AfterPrefix(parse_input.value)
        IN  IF EndsWith(text, NotLogged)
            THEN /\ parsed.parameter = Some(NotLogged)
                 /\ Strip(parsed.statement \o <<",">> \o NotLogged) = text
                    \/ Strip(parsed.statement \o NotLogged) = text
            ELSE /\ parsed.parameter = None
                 /\ parsed.statement = text

\* the value of a timestamp of a row is missing or malformed
BadTimestamp(ts) ==
    \/ ts.type \in {"missing", "None"}
    \/ ts.type \in {"str", "int", "float"} /\ ts.range # "ok"
    \/ ts.type \notin {"missing", "None", "datetime", "str", "int", "float"}

\* C18: parse_log_row and parse_line never raise: a call returns an entry or
\* None; and a row that holds an audit message that the parser accepts and
\* a missing or malformed timestamp (text that is not a time, a number out of
\* range, a value of another type) returns an entry without a timestamp.
C18_ParsersNeverRaise ==
    (parse_input.kind \in {"row", "line"} /\ parse_outcome # <<>>) =>
        /\ parse_outcome[1].raised = ""
        /\ (/\ parse_input.kind = "row"
            /\ parse_input.value.event_message.type = "str"
            /\ StartsWith(parse_input.value.event_message.text, AuditToken)
            /\ PrefixMatches(parse_input.value.event_message.text)
            /\ BadTimestamp(parse_input.value.timestamp)) =>
              /\ parse_outcome[1].value # None
              /\ parse_outcome[1].value[1].timestamp = None

----------------------------------------------------------------------------
(* Properties of the input adapters *)

\* the queries of the records for which the parser returns an entry, in the
\* order of the records
QueriesOfAccepted(kind, recs) ==
    LET outcomes == [i \in DOMAIN recs |-> ParseRecord(kind, recs[i])]
        kept == SelectSeq(outcomes, LAMBDA o : o.raised = "" /\ o.value # None)
    IN  [i \in DOMAIN kept |-> QueryOf(kept[i].value[1])]

\* C17: an adapter over N audit records mixed with M other records yields
\* the queries of the N audit records in their order and then signals
\* exhaustion: what it has yielded is always a prefix of these queries, it
\* is all of them at exhaustion, and no record makes the adapter raise.
C17_YieldsAuditRecords ==
    LET expected == QueriesOfAccepted(adapter, records)
    IN  /\ adapter_pc # "raised"
        /\ Len(yielded) <= Len(expected)
        /\ yielded = SubSeq(expected, 1, Len(yielded))
        /\ adapter_pc = "exhausted" => yielded = expected

----------------------------------------------------------------------------
(* Properties of the Management API client                                 *)

HttpEnded == http_pc \in {"returned", "raised"}

\* the last response received, once _request has acted on it
Answered(status_code) ==
    /\ http_statuses # <<>>
    /\ http_statuses[Len(http_statuses)] = status_code
    /\ http_pc # "got"
    /\ ~(http_pc = "raised" /\ http_raised[1].name = "TransportError")

\* C19: _request retries only on a 429 response and at most 3 times: it
\* sends at most 4 requests, sleeps before each retry for 1, 2, 4 seconds
\* plus a jitter of at most 0.5, and on the fourth 429 raises
\* RateLimitError carrying the server's Retry-After value, so the loop
\* always ends; a 401 or a 404 response raises AuthenticationError or
\* NotFoundError at once, without a retry.
C19_BoundedRetry ==
    /\ http_sent <= 4
    /\ http_retries <= 3
    /\ Len(http_sleeps) = http_retries
    /\ Len(http_sleeps) <= Len(http_statuses)
    /\ \A k \in 1..Len(http_sleeps) :
          /\ http_statuses[k] = 429
          /\ http_sleeps[k] >= <<10, 20, 40>>[k]
          /\ http_sleeps[k] <= <<10, 20, 40>>[k] + 5
    /\ (Len(http_statuses) = 4 /\ Answered(429)) =>
          /\ http_pc = "raised"
          /\ http_raised[1].name = "RateLimitError"
          /\ LET header == http_response[1].retry_after
             IN  header.kind = "seconds" =>
                    http_raised[1].retry_after = Some(header.seconds)
    /\ Answered(401) =>
          /\ http_pc = "raised"
          /\ http_raised[1].name = "AuthenticationError"
          /\ Len(http_sleeps) = Len(http_statuses) - 1
    /\ Answered(404) =>
          /\ http_pc = "raised"
          /\ http_raised[1].name = "NotFoundError"
          /\ Len(http_sleeps) = Len(http_statuses) - 1
    /\ ~HttpEnded => ENABLED NextHttp

----------------------------------------------------------------------------
(* Properties of the log client                                            *)

\* the time range query_logs is asked for, the defaults filled in
AskedEnd == IF lq_end = None THEN lq_now ELSE lq_end[1].minutes

AskedStart == IF lq_start = None THEN AskedEnd - 1 ELSE lq_start[1].minutes

\* the two ends of the range can be compared
Comparable ==
    (IF lq_end = None THEN TRUE ELSE lq_end[1].aware)
    = (IF lq_start = None THEN (IF lq_end = None THEN TRUE ELSE lq_end[1].aware)
       ELSE lq_start[1].aware)

InvalidRange == AskedEnd <= AskedStart \/ AskedEnd - AskedStart > 24 * 60

\* C20: query_logs rejects an invalid time range before any request is
\* sent: it raises ValueError when end_time is not after start_time or when
\* the span exceeds 24 hours (a span of exactly 24 hours is accepted), and
\* then no HTTP call is made.
C20_RejectsInvalidRange ==
    (Comparable /\ lq_pc # "start") =>
        /\ InvalidRange =>
              /\ lq_pc = "raised"
              /\ lq_raised = Some("ValueError")
              /\ lq_calls = 0
        /\ ~InvalidRange =>
              /\ lq_raised # Some("ValueError")
              /\ lq_pc = "request" \/ lq_calls = 1

\* a span of one minute over 24 hours was rejected without a request
C20_Witness ==
    /\ Comparable
    /\ AskedEnd - AskedStart = 24 * 60 + 1
    /\ lq_pc = "raised"
    /\ lq_raised = Some("ValueError")
    /\ lq_calls = 0

\* the failure category that the Management API client gives a status code
\* (api/exceptions.py)
CategoryOf(status_code) ==
    IF status_code = 401 THEN "AuthenticationError"
    ELSE IF status_code = 404 THEN "NotFoundError"
    ELSE "RateLimitError"

\* C21: query_logs surfaces authentication failure, not-found and
\* rate-limiting as distinct failure categories, and retries with a backoff
\* on a rate-limit answer, and only on that, before it surfaces a failure.
C21_DistinctCategoriesAndRetry ==
    (lq_pc = "raised" /\ lq_status # None) =>
        /\ lq_status[1] \in {401, 404, 429} => lq_raised = Some(CategoryOf(lq_status[1]))
        /\ lq_status[1] = 429 => lq_calls > 1
        /\ lq_status[1] # 429 => lq_calls = 1

\* the elements of a list of timestamps that are later than t
LaterThan(list, t) == SelectSeq(list, LAMBDA ts : ts > t)

\* C22: pruning compares the stored timestamps only against the time of the
\* current event: when an event arrives with a timestamp earlier than
\* timestamps stored for its key, those later timestamps are kept and
\* counted, so the count can exceed the number of the user's events that
\* lie within one window length of the current event.
C22_LaterTimestampsKept ==
    [][IsAnalyzeStep =>
          LET u == last'.user_id
              t == last'.timestamp
              stored == Entry(queries, u)
          IN  /\ LaterThan(queries'[u], t) = LaterThan(stored, t)
              /\ queries'[u] = LaterThan(stored, t - window_seconds) \o <<t>>
              /\ last'.count = Len(queries'[u])
              /\ last'.count >= Len(LaterThan(stored, t)) + 1]_vars

\* a backdated event was counted together with a stored timestamp that lies
\* more than a window length after it
C22_Witness ==
    /\ last.called
    /\ LET list == queries[last.user_id]
           near == {i \in DOMAIN list :
                       /\ list[i] > last.timestamp - window_seconds
                       /\ list[i] < last.timestamp + window_seconds}
       IN  /\ last.count > Cardinality(near)
           /\ \E i \in DOMAIN list : list[i] >= last.timestamp + window_seconds

\* C29: after every analyze call, whatever the sequence of users and
\* timestamps, the map of the volume detector holds no key with an empty
\* list of timestamps, and the key of the query just analysed is present
\* with the new event time as the last element of its list.
C29_MapInvariant ==
    /\ \A u \in DOMAIN queries : queries[u] # <<>>
    /\ last.called =>
          /\ last.user_id \in DOMAIN queries
          /\ queries[last.user_id][Len(queries[last.user_id])] = last.timestamp

\* after three calls one key was pruned away, and the key of the last call
\* holds an earlier, different timestamp before the new one
C29_Witness ==
    /\ last.called
    /\ ncalls = 3
    /\ Cardinality(seen_keys) = 2
    /\ DOMAIN queries = {last.user_id}
    /\ Len(queries[last.user_id]) = 2
    /\ queries[last.user_id][1] # last.timestamp

----------------------------------------------------------------------------
(* Properties of the volume detector over the history of its calls        *)

\* the calls so far of user u whose event time is strictly later than t
EventsAfter(u, t) ==
    {i \in DOMAIN call_log : call_log[i].user_id = u /\ call_log[i].timestamp > t}

\* C23: when all events, of all users, are submitted with non-decreasing
\* timestamps, the count computed for an event of user u with timestamp t
\* is the number of u's events submitted so far, this one included, whose
\* timestamp is strictly later than t minus the window size.
C23_CountIsEventsInWindow ==
    last.called =>
        last.count = Cardinality(EventsAfter(last.user_id, last.timestamp - window_seconds))

\* the last call counted two events of its user, left out an earlier one
\* that lies exactly one window before it, and an event of another user
\* came in between
C23_Witness ==
    /\ last.called
    /\ last.count = 2
    /\ \E i \in DOMAIN call_log :
          /\ call_log[i].user_id = last.user_id
          /\ call_log[i].timestamp = last.timestamp - window_seconds
    /\ \E i \in DOMAIN call_log : call_log[i].user_id # last.user_id

\* C24: the finding returned for an event of user A depends only on A's own
\* events: two sequences that hold the same events of A in the same order
\* and differ only in the events of other users give the same finding, or
\* the same absence, for each of A's events.
C24_OwnEventsOnly ==
    (last.called /\ last.user_id = "user1") => ref_result = Some(last.result)

----------------------------------------------------------------------------
(* Properties of the registry called twice on a query                     *)

Drawn == [k \in 1..Len(SelectSeq(events, LAMBDA e : e.op = "anext")) |->
             SelectSeq(events, LAMBDA e : e.op = "anext")[k].qi]

\* the number of queries for which analyze_all returned at least one finding
WithFindings ==
    Len(SelectSeq(events, LAMBDA e : e.op = "findings" /\ e.val # <<>>))

\* run has returned: every query was drawn once, in order, and every sink
\* holds one alert for each query with a finding
C26_RunComplete ==
    /\ pc = "done"
    /\ input_index = Len(input_queries)
    /\ Drawn = [k \in 1..Len(input_queries) |-> k]
    /\ \A i \in DOMAIN outputs : Len(delivered[i]) = WithFindings
    /\ input_queries = <<>> => \A p \in DOMAIN events : events[p].op = "stop"

\* C26: for a finite source and sinks that do not fail, run terminates after
\* drawing every query from the source exactly once, and each sink has then
\* received as many alerts as there were queries with at least one finding;
\* for an empty source it terminates without calling a detector or a sink.
C26_RunTerminates == [](pc # "failed") => <>C26_RunComplete

\* run has returned after two queries with findings went to two sinks
C26_Witness ==
    /\ pc = "done"
    /\ Len(input_queries) = 2
    /\ Len(outputs) = 2
    /\ WithFindings = 2
    /\ \A i \in DOMAIN outputs : Len(delivered[i]) = 2

----------------------------------------------------------------------------
(* Properties of the input sources iterated past their end                 *)

\* the step is a call of __anext__
IsAnext == src_ops' = src_ops + 1 /\ src_last'.op = "__anext__"

\* the step is a call of reset()
IsReset == src_ops' = src_ops + 1 /\ src_last'.op = "reset"

IsSupabase == src_kind \in {"supabase", "supabase_rows"}

\* the queries that the source holds, in the order of the source: those of
\* a log file are the queries of the lines for which parse_line returns an
\* entry
SourceQueries ==
    CASE src_kind = "manual" -> src_items
      [] src_kind = "logfile" ->
            CollectQueries([i \in DOMAIN src_items |->
                LET parsed == parse_line(src_items[i])
                IN  IF parsed.raised # "" THEN Returned(None) ELSE parsed]).value
      [] OTHER -> src_queries

\* out is the start of the queries, and all of them at the end
InSourceOrder(out, expected, ended) ==
    /\ Len(out) <= Len(expected)
    /\ out = SubSeq(expected, 1, Len(out))
    /\ ended => out = expected

\* C27: SupabaseLogInput fetches nothing before the first __anext__, which
\* fetches; a call that yields or signals the end leaves the logs fetched,
\* and while they are fetched no step but the start of refresh() fetches,
\* changes the cached queries or clears the flag; reset() sets the index to
\* 0 and keeps the cache, so that a second complete pass yields the queries
\* of the first in the same order; refresh() empties the cache and rewinds
\* without fetching, and only then fetches.
C27_LazyFetchResetRefresh ==
    [][IsSupabase =>
        /\ src_ops = 0 => src_fetches = 0
        /\ (IsAnext /\ src_kind = "supabase") =>
              src_fetches' = IF src_fetched THEN src_fetches ELSE src_fetches + 1
        /\ (IsAnext /\ src_last'.outcome \in {"yield", "stop"}) => src_fetched'
        /\ (src_pc = "refreshing" /\ src_last'.outcome = "done") => src_fetched'
        /\ (src_fetched /\ src_pc' # "refreshing") =>
              /\ src_fetched'
              /\ src_fetches' = src_fetches
              /\ src_queries' = src_queries
        /\ IsReset =>
              /\ src_index' = 0
              /\ src_queries' = src_queries
              /\ src_fetches' = src_fetches
              /\ src_fetched' = src_fetched
        /\ (src_stopped' /\ src_prev' # None) => src_out' = src_prev'[1]
        /\ (src_pc = "idle" /\ src_pc' = "refreshing") =>
              /\ src_queries' = <<>>
              /\ src_index' = 0
              /\ ~src_fetched'
              /\ src_fetches' = src_fetches
        /\ (src_pc = "refreshing" /\ src_kind = "supabase") =>
              /\ src_fetches' = src_fetches + 1
              /\ src_index' = 0]_vars

\* a second pass after reset() has yielded the two queries of the first
\* pass, and the logs were fetched once
C27_Witness ==
    /\ src_kind = "supabase"
    /\ src_stopped
    /\ src_prev # None
    /\ Len(src_out) = 2
    /\ src_out = src_prev[1]
    /\ src_fetches = 1

\* C28: what an input source has yielded since its construction, reset or
\* refresh is a prefix of its queries in their order, and it is all of them
\* once __anext__ has signalled the end; from then on, a call of __anext__
\* has signalled the end again: it has neither yielded a query nor raised
\* an error.
C28_ExhaustionStable ==
    /\ InSourceOrder(src_out, SourceQueries, src_stopped)
    /\ (src_stopped /\ src_last.op = "__anext__") => src_last.outcome = "stop"

\* the end was signalled twice after the two queries of a log file
C28_Witness ==
    /\ src_kind = "logfile"
    /\ Len(src_out) = 2
    /\ src_ops = 4
    /\ src_last.outcome = "stop"

----------------------------------------------------------------------------
(* Properties of pipelines that share a detector on one event loop         *)

\* the tasks that are between the pruning and the counting of a call
InsideAnalyze == {p \in Tasks : task_pc[p] \in {"pruned", "appended"}}

\* C30: no task is suspended between the pruning, the appending and the
\* counting of analyze: at most one task is inside the sequence, and it is
\* the running one; the calls for user1 with the same timestamp read the
\* counts 1, 2, ... in turn, each once, and the list holds one timestamp
\* per call that has appended.
C30_NoInterleavingInAnalyze ==
    /\ Cardinality(InsideAnalyze) <= 1
    /\ \A p \in InsideAnalyze : loop_running = p
    /\ \A k \in 1..Len(observed) : observed[k] = k
    /\ Len(Entry(queries, SharedUser)) =
          Len(observed) + Cardinality({p \in Tasks : task_pc[p] = "appended"})

\* both tasks have made a call, they took turns, and the calls are over
C30_Witness ==
    /\ \A p \in Tasks : task_left[p] = 0
    /\ Len(observed) = MaxTasks * MaxPerTask
    /\ loop_running = 0

====
